---------------------------- MODULE Spec2Model ----------------------------
(***************************************************************************)
(* Task Alignment Engine (src/services/taskAlignment.ts, kept in           *)
(* src/unnamed/part_005) together with the caller that reads the task      *)
(* snapshot (src/src/controllers/aiController.ts).                         *)
(*                                                                         *)
(* Text is a sequence of one-character strings, so that toLowerCase,       *)
(* trim, substring, includes and the UUID pattern are computed character   *)
(* by character.  A JavaScript value is a tagged record (JSVal below).     *)
(* Storage is the tasks table: a set of rows; a query either fails (the    *)
(* driver rejects) or is applied atomically.                               *)
(***************************************************************************)
EXTENDS Integers, Sequences, FiniteSets, TLC

(***************************************************************************)
(* Bounds of the model                                                     *)
(***************************************************************************)
\* total number of proposed operations handed to the engine in one run
MaxOps == 2

\* callOptimalAI calls in a run
MaxCalls == 2

\* requests received in a run
MaxRequests == 2

\* requests in progress at the same time
MaxWorkers == 2

\* calendar days a run spans
MaxDays == 2

MaxTimes == 2

(***************************************************************************)
(* Program constants                                                       *)
(***************************************************************************)
\* substring(0, 20) of the duplicate check
PrefixLen == 20
\* task.duration || 30 of the INSERT
DefaultDuration == 30
\* length of the canonical 8-4-4-4-12 identifier
UuidLen == 36

(***************************************************************************)
(* Text                                                                    *)
(***************************************************************************)
UpperChars == <<"A","B","C","D","E","F","G","H","I","J","K","L","M","N","O","P","Q","R","S","T","U","V","W","X","Y","Z">>

LowerChars == <<"a","b","c","d","e","f","g","h","i","j","k","l","m","n","o","p","q","r","s","t","u","v","w","x","y","z">>

DigitChars == <<"0","1","2","3","4","5","6","7","8","9">>

Range(s) == { s[k] : k \in DOMAIN s }

Min(a, b) == IF a < b THEN a ELSE b

\* String.prototype.toLowerCase, one character
LowerChar(c) ==
  IF \E k \in DOMAIN UpperChars : UpperChars[k] = c
    THEN LowerChars[CHOOSE k \in DOMAIN UpperChars : UpperChars[k] = c]
    ELSE c

\* String.prototype.toLowerCase
toLowerCase(s) == [ k \in DOMAIN s |-> LowerChar(s[k]) ]

\* String.prototype.substring(0, n)
substring(s, n) == SubSeq(s, 1, Min(n, Len(s)))

\* String.prototype.includes
includes(hay, needle) ==
  \E k \in 0 .. (Len(hay) - Len(needle)) :
     \A j \in 1 .. Len(needle) : hay[k + j] = needle[j]

\* what \s matches and trim removes
IsSpace(c) == c \in {" ", "\t", "\n", "\r"}

RECURSIVE trimStart(_)
trimStart(s) == IF s # <<>> /\ IsSpace(Head(s)) THEN trimStart(Tail(s)) ELSE s

RECURSIVE trimEnd(_)
trimEnd(s) ==
  IF s # <<>> /\ IsSpace(s[Len(s)]) THEN trimEnd(SubSeq(s, 1, Len(s) - 1)) ELSE s

\* String.prototype.trim
trim(s) == trimEnd(trimStart(s))

IsHex(c) ==
  c \in Range(DigitChars) \cup {"a","b","c","d","e","f","A","B","C","D","E","F"}

(***************************************************************************)
(* JavaScript values: undefined, null, a number, a string whose text       *)
(* matters (k = "str") and a non-empty word whose text does not            *)
(* (k = "word": the values of action, importance and status).              *)
(***************************************************************************)
Undef == [k |-> "undef"]

Null == [k |-> "null"]

Num(n) == [k |-> "num", n |-> n]

Str(s) == [k |-> "str", s |-> s]

Word(w) == [k |-> "word", w |-> w]

\* ToBoolean: what `!x` and `x || y` test
Truthy(v) ==
  CASE v.k = "undef" -> FALSE
    [] v.k = "null"  -> FALSE
    [] v.k = "num"   -> v.n # 0
    [] v.k = "str"   -> v.s # <<>>
    [] v.k = "word"  -> TRUE

\* a || b
OrElse(a, b) == IF Truthy(a) THEN a ELSE b

\* typeof v === 'string'
IsString(v) == v.k \in {"str", "word"}

\* the text of a string value (a word has no spaces and is never empty)
TextOf(v) == IF v.k = "str" THEN v.s ELSE <<v.w>>

\* COALESCE($n, column)
Coalesce(param, column) == IF param.k = "null" THEN column ELSE param

(***************************************************************************)
(* Identifiers and titles used by the model                                *)
(***************************************************************************)
IdWorkout == <<"1","2","3","e","4","5","6","7","-","e","8","9","b","-","1","2","d","3","-","a","4","5","6","-","4","2","6","6","1","4","1","7","4","0","0","0">>

IdReport == <<"9","b","2","f","6","c","1","e","-","4","d","3","a","-","4","f","8","b","-","8","c","7","d","-","1","a","2","b","3","c","4","d","5","e","6","f">>

IdRent == <<"5","c","0","a","7","e","2","d","-","6","b","1","f","-","4","a","9","c","-","b","3","e","8","-","7","f","6","e","5","d","4","c","3","b","2","a">>

IdUnknown == <<"0","0","0","0","0","0","0","0","-","0","0","0","0","-","1","0","0","0","-","8","0","0","0","-","0","0","0","0","0","0","0","0","0","0","0","0">>

IdNotAUuid == <<"n","o","t","-","a","-","u","u","i","d">>

IdBadVersion == <<"1","2","3","e","4","5","6","7","-","e","8","9","b","-","6","2","d","3","-","a","4","5","6","-","4","2","6","6","1","4","1","7","4","0","0","0">>

FreshIdStem == <<"a","1","b","2","c","3","d","4","-","e","5","f","6","-","4","a","1","b","-","8","c","2","d","-","3","e","4","f","5","a","6","b","7","c","8">>

TWorkout == <<"W","o","r","k","o","u","t">>

TWorkoutUpper == <<"W","O","R","K","O","U","T">>

TReport == <<"D","r","a","f","t"," ","r","e","p","o","r","t"," ","f","o","r"," ","t","h","e"," ","q","u","a","r","t","e","r","l","y"," ","r","e","v","i","e","w">>

TReportOther == <<"D","r","a","f","t"," ","r","e","p","o","r","t"," ","f","o","r"," ","t","h","e"," ","a","n","n","u","a","l"," ","s","u","m","m","i","t">>

TRent == <<"P","a","y"," ","r","e","n","t">>

TCallMomPadded == <<" ","C","a","l","l"," ","m","o","m"," ">>

TCallMom == <<"C","a","l","l"," ","m","o","m">>

TWork == <<"W","o","r","k">>

TMorning == <<"M","o","r","n","i","n","g"," ","w","o","r","k","o","u","t"," ","s","e","s","s","i","o","n">>

TBlank == <<" "," ">>

TNewTitle == <<"S","t","r","e","t","c","h","i","n","g">>

Time0700 == <<"0","7",":","0","0">>

Time0930 == <<"0","9",":","3","0">>

TBadTime == <<"2","5",":","0","0">>

Users == {"alice", "bob"}

\* the identity storage assigns to the n-th inserted row (RETURNING id)
FreshId(n) == FreshIdStem \o <<DigitChars[n + 1]>>

(***************************************************************************)
(* isValidUUID (part_005 lines 25-29)                                      *)
(***************************************************************************)
\* the regular expression of line 28, with the /i flag
UuidPattern(s) ==
  /\ Len(s) = UuidLen
  /\ \A p \in 1 .. UuidLen :
       CASE p \in {9, 14, 19, 24} -> s[p] = "-"
         [] p = 15 -> s[p] \in {"1","2","3","4","5"}
         [] p = 20 -> s[p] \in {"8","9","a","b","A","B"}
         [] OTHER  -> IsHex(s[p])

isValidUUIDAnyText(id) == Truthy(id) /\ id.k = "str"

isValidUUID(id) ==
  IF ~Truthy(id) THEN FALSE
  ELSE IF id.k # "str" THEN FALSE
  ELSE UuidPattern(id.s)

(***************************************************************************)
(* Proposed operations: the elements of generatedTasks                     *)
(***************************************************************************)
\* an object literal; a key left out reads as undefined
Obj(id, action, title, duration, importance, status, scheduledTime) ==
  [k |-> "obj", id |-> id, action |-> action, title |-> title,
   duration |-> duration, importance |-> importance, status |-> status,
   scheduledTime |-> scheduledTime]

\* property access on a non-null element; a primitive has no own keys
Field(e, f) == IF e.k = "obj" THEN e[f] ELSE Undef

\* property access on null throws a TypeError
IsNullElement(e) == e.k = "null"

(***************************************************************************)
(* The tasks table                                                         *)
(***************************************************************************)
Row(id, user, title, duration, importance, status, scheduledTime) ==
  [id |-> id, user_id |-> user, title |-> title, duration_minutes |-> duration,
   importance |-> importance, status |-> status, scheduled_time |-> scheduledTime]

SeedRows ==
  { Row(IdWorkout, "alice", Str(TWorkout), Num(45), Word("high"), Word("todo"), Str(Time0700)),
    Row(IdReport, "alice", Str(TReport), Num(60), Word("high"), Word("todo"), Null),
    Row(IdRent, "bob", Str(TRent), Num(10), Word("low"), Word("backlog"), Null) }

InitialStores == { SeedRows, {} }


(***************************************************************************)
(* Operations the AI backend may propose                                   *)
(***************************************************************************)
OpCallMom == Obj(Undef, Undef, Str(TCallMomPadded), Num(15), Word("medium"), Undef, Undef)

OpAddNoTitle == Obj(Undef, Word("add"), Undef, Num(15), Undef, Undef, Undef)

OpBlankTitle == Obj(Undef, Undef, Str(TBlank), Num(15), Undef, Undef, Undef)

OpNumTitle == Obj(Undef, Word("create"), Num(7), Num(15), Undef, Undef, Undef)

OpNoDuration == Obj(Undef, Undef, Str(TCallMom), Undef, Undef, Undef, Undef)

OpTextDuration == Obj(Undef, Undef, Str(TCallMom), Str(<<"1","5">>), Undef, Undef, Undef)

OpZeroDuration == Obj(Undef, Word("add"), Str(TCallMom), Num(0), Undef, Undef, Undef)

OpNegDuration == Obj(Undef, Undef, Str(TCallMom), Num(-5), Undef, Undef, Undef)

OpDupUpper == Obj(Undef, Word("add"), Str(TWorkoutUpper), Num(30), Undef, Undef, Undef)

OpDupWork == Obj(Undef, Undef, Str(TWork), Num(30), Undef, Undef, Undef)

OpDupMorning == Obj(Undef, Undef, Str(TMorning), Num(30), Undef, Undef, Undef)

OpDupReportOther == Obj(Undef, Undef, Str(TReportOther), Num(90), Word("high"), Undef, Undef)

OpCreateWithId == Obj(Str(IdWorkout), Word("create"), Str(TNewTitle), Num(20), Undef, Undef, Str(Time0930))

OpDelWorkout == Obj(Str(IdWorkout), Word("delete"), Undef, Undef, Undef, Undef, Undef)

OpDelUnknown == Obj(Str(IdUnknown), Word("delete"), Undef, Undef, Undef, Undef, Undef)

OpRemoveRent == Obj(Str(IdRent), Word("remove"), Str(TRent), Undef, Undef, Undef, Undef)

OpDelRescue == Obj(Str(IdNotAUuid), Word("delete"), Str(TWorkoutUpper), Undef, Undef, Undef, Undef)

OpDelBadVersion == Obj(Str(IdBadVersion), Word("completed"), Str(TWorkout), Undef, Undef, Undef, Undef)

OpDelNoMatch == Obj(Str(IdNotAUuid), Word("delete"), Str(TCallMom), Undef, Undef, Undef, Undef)

OpDelNoId == Obj(Undef, Word("delete"), Str(TWorkout), Undef, Undef, Undef, Undef)

OpDelNumId == Obj(Num(42), Word("remove"), Str(TWorkout), Undef, Undef, Undef, Undef)

OpDelNumTitle == Obj(Str(IdNotAUuid), Word("delete"), Num(7), Undef, Undef, Undef, Undef)

OpModStatus == Obj(Str(IdWorkout), Word("modify"), Undef, Undef, Undef, Word("done"), Undef)

OpModAll == Obj(Str(IdWorkout), Word("change"), Str(TNewTitle), Num(20), Word("low"), Word("doing"), Str(Time0930))

OpModRescue == Obj(Str(IdNotAUuid), Word("update"), Str(TWorkoutUpper), Num(30), Undef, Undef, Undef)

OpModRescueStatus == Obj(Num(42), Word("modify"), Str(TWorkout), Undef, Undef, Word("doing"), Undef)

OpModNoMatch == Obj(Str(IdBadVersion), Word("modify"), Str(TCallMom), Undef, Undef, Word("done"), Undef)

OpModNoId == Obj(Undef, Word("modify"), Str(TWorkout), Undef, Undef, Word("done"), Undef)

OpModUnknown == Obj(Str(IdUnknown), Word("modify"), Undef, Undef, Undef, Word("done"), Undef)

OpModRent == Obj(Str(IdRent), Word("update"), Undef, Num(20), Undef, Undef, Undef)

OpUnknownAction == Obj(Str(IdWorkout), Word("archive"), Str(TWorkout), Undef, Undef, Undef, Undef)

OpIdOnly == Obj(Str(IdWorkout), Undef, Str(TWorkout), Num(45), Undef, Undef, Undef)

OpNull == Null

OpPrimitive == Num(5)

\* operations naming the identity or the title of another user's task
OpAddRent == Obj(Undef, Word("add"), Str(TRent), Num(10), Undef, Undef, Undef)

OpDelRentByTitle == Obj(Str(IdNotAUuid), Word("delete"), Str(TRent), Undef, Undef, Undef, Undef)

\* operations whose fields are outside what a stored task may hold
OpAddWild == Obj(Undef, Word("add"), Str(TCallMom), Num(1000), Word("medium"), Undef, Str(TBadTime))

OpModWild == Obj(Str(IdWorkout), Word("modify"), Str(TBlank), Num(1000), Undef, Undef, Str(TBadTime))

FieldsOps == { OpAddWild, OpBlankTitle, OpModWild }

RaceOps == { OpDelWorkout, OpDelRescue }

IsolationOps ==
  { OpRemoveRent, OpModRent, OpDelRentByTitle, OpAddRent }

MixedOps ==
  { OpCallMom, OpBlankTitle, OpDupUpper, OpDelWorkout, OpDelUnknown, OpDelRescue,
    OpDelNoId, OpModStatus, OpModRescue, OpModNoId, OpNull, OpPrimitive,
    OpUnknownAction, OpIdOnly }

CreateOps ==
  { OpCallMom, OpAddNoTitle, OpBlankTitle, OpNumTitle, OpNoDuration, OpTextDuration,
    OpZeroDuration, OpNegDuration, OpDelWorkout, OpModStatus }

DuplicateOps ==
  { OpCallMom, OpDupUpper, OpDupWork, OpDupMorning, OpDupReportOther, OpCreateWithId,
    OpBlankTitle, OpDelWorkout, OpModStatus }

DeleteOps ==
  { OpDelWorkout, OpDelUnknown, OpRemoveRent, OpDelRescue, OpDelBadVersion,
    OpDelNoMatch, OpDelNoId, OpDelNumId, OpDelNumTitle, OpCallMom, OpModStatus }

ModifyOps ==
  { OpModStatus, OpModAll, OpModRescue, OpModRescueStatus, OpModNoMatch, OpModNoId,
    OpModUnknown, OpModRent, OpCallMom, OpDelWorkout }

\* the operations of a run, by the name kept in `proposals`
Pool(name) ==
  CASE name = "mixed" -> MixedOps
    [] name = "create" -> CreateOps
    [] name = "duplicate" -> DuplicateOps
    [] name = "delete" -> DeleteOps
    [] name = "modify" -> ModifyOps
    [] name = "isolation" -> IsolationOps
    [] name = "fields" -> FieldsOps
    [] name = "race" -> RaceOps

(***************************************************************************)
(* State                                                                   *)
(***************************************************************************)
VARIABLES
  tasks,           \* the tasks table
  nextId,          \* number of identities storage has assigned
  proposals,       \* names the operations the AI backend may emit in this run
  opsUsed,         \* operations handed to the engine so far
  pc,              \* position of the request: idle, fetched, create, delete, modify, returned
  userId,          \* the calling user
  existingTasks,   \* the snapshot read by the caller (a sequence of rows)
  generatedTasks,  \* the batch of proposed operations
  i,               \* index in the current pass's list
  results,         \* insertedTasks, modifiedTasks, deletedTasks, conflicts
  trace,           \* per processed operation: its batch index, pass and storage query
  modelPerformance, \* utils/ai.ts: successes and failures recorded per model key
  callsMade,       \* callOptimalAI calls started so far
  rpc,             \* position of callOptimalAI: idle, request, await, returned, threw
  taskType,        \* its taskType argument
  attemptCount,    \* its local attemptCount
  lastError,       \* its local lastError (a message, or Null)
  requested,       \* the requests it has issued, in order, each with its outcome
  routerResult,    \* what it returned or threw
  rawResponse,     \* the argument of cleanAIResponse
  cleaned,         \* what cleanAIResponse returned, once it has
  aiResponse,      \* the text of the AI reply a handler parses
  shape,           \* the JSON it expects: array or object
  parsed,          \* what the extraction gave, once it has run
  req,             \* the request a handler is serving
  step,            \* the step of its program the handler is at
  stage,           \* idle, run, await, repairing, finally, resolved, rejected
  sql,             \* the handler's connection: null, open, ended
  response,        \* the response sent to the client
  journal,         \* what the handler has done for this request, in order
  plans,           \* the plans table
  requestsDone,    \* requests received so far
  today,           \* CURRENT_DATE of storage
  scores,          \* the game_scores table
  workers,         \* the requests in progress at the same time, each with its locals
  extractedTimes,  \* scheduledTime of the extracted tasks still to be mapped
  validTasks       \* the tasks extractTasksFromVoice has mapped, in order

\* the state of the Model Router
routerVars ==
  <<modelPerformance, callsMade, rpc, taskType, attemptCount, lastError, requested,
    routerResult>>

\* the state of the Response Sanitizer
textVars == <<rawResponse, cleaned>>

\* the state of the JSON extraction
extractVars == <<aiResponse, shape, parsed>>

\* the state of a request handler
handlerVars == <<req, step, stage, sql, response, journal, plans, requestsDone>>

\* the state of requests served concurrently
workerVars == <<today, scores, workers>>

\* the task list extractTasksFromVoice is mapping
voiceVars == <<extractedTimes, validTasks>>

\* what the alignment engine and its caller leave alone
auxVars == <<routerVars, textVars, extractVars, handlerVars, workerVars, voiceVars>>

\* the state of the alignment engine, its caller and the tasks table
engineVars ==
  <<tasks, nextId, proposals, opsUsed, pc, userId, existingTasks, generatedTasks,
    i, results, trace>>

\* what the Model Router leaves alone
notRouterVars == <<engineVars, textVars, extractVars, handlerVars, workerVars, voiceVars>>

\* what the Response Sanitizer leaves alone
notTextVars == <<engineVars, routerVars, extractVars, handlerVars, workerVars, voiceVars>>

\* what the JSON extraction leaves alone
notExtractVars == <<engineVars, routerVars, textVars, handlerVars, workerVars, voiceVars>>

\* the state of an alignment batch and its caller
batchVars ==
  <<proposals, opsUsed, pc, userId, existingTasks, generatedTasks, i, results, trace>>

vars ==
  <<tasks, nextId, proposals, opsUsed, pc, userId, existingTasks, generatedTasks,
    i, results, trace, auxVars>>

EmptyResults ==
  [insertedTasks |-> <<>>, modifiedTasks |-> <<>>, deletedTasks |-> <<>>, conflicts |-> <<>>]

NoQuery == [kind |-> "none"]

Query(kind, id, user, ok, rowCount) ==
  [kind |-> kind, id |-> id, user |-> user, ok |-> ok, rowCount |-> rowCount]

Conflict(issue, issueArg, suggestion, suggestionArg) ==
  [issue |-> [msg |-> issue, arg |-> issueArg],
   suggestion |-> [msg |-> suggestion, arg |-> suggestionArg]]

\* JSON.stringify(task)
Json(task) == [k |-> "json", v |-> task]

(***************************************************************************)
(* The three filters (part_005 lines 61-65, 139-143, 215-219)              *)
(***************************************************************************)
ActionIs(task, w) ==
  LET a == Field(task, "action") IN a.k = "word" /\ a.w = w

IsAdd(task) ==
  \/ ~Truthy(Field(task, "id")) /\ ~Truthy(Field(task, "action"))
  \/ ActionIs(task, "add")
  \/ ActionIs(task, "create")

IsDelete(task) ==
  ActionIs(task, "delete") \/ ActionIs(task, "remove") \/ ActionIs(task, "completed")

IsModify(task) ==
  ActionIs(task, "modify") \/ ActionIs(task, "update") \/ ActionIs(task, "change")

Indices(batch) == [k \in 1 .. Len(batch) |-> k]

tasksToAdd(batch) == SelectSeq(Indices(batch), LAMBDA k : IsAdd(batch[k]))

tasksToDelete(batch) == SelectSeq(Indices(batch), LAMBDA k : IsDelete(batch[k]))

tasksToModify(batch) == SelectSeq(Indices(batch), LAMBDA k : IsModify(batch[k]))

\* evaluating a filter callback on a null element throws
FilterThrows(batch) == \E k \in 1 .. Len(batch) : IsNullElement(batch[k])

PassList(pass, batch) ==
  CASE pass = "create" -> tasksToAdd(batch)
    [] pass = "delete" -> tasksToDelete(batch)
    [] pass = "modify" -> tasksToModify(batch)
    [] OTHER -> <<>>

NextPassModifyFirst(pass) ==
  CASE pass = "create" -> "modify"
    [] pass = "modify" -> "delete"
    [] OTHER -> "returned"

NextPass(pass) ==
  CASE pass = "create" -> "delete"
    [] pass = "delete" -> "modify"
    [] OTHER -> "returned"

\* the first pass, from `pass` on, that has an operation to process
RECURSIVE FirstFrom(_, _)
FirstFrom(pass, batch) ==
  IF pass = "returned" THEN [pc |-> "returned", i |-> 0]
  ELSE IF PassList(pass, batch) # <<>> THEN [pc |-> pass, i |-> 1]
  ELSE FirstFrom(NextPass(pass), batch)

\* the position after the i-th operation of a pass
After(pass, k, batch) ==
  IF k < Len(PassList(pass, batch)) THEN [pc |-> pass, i |-> k + 1]
  ELSE FirstFrom(NextPass(pass), batch)

OuterCatchRethrows == "rejected"

\* the outer catch (lines 335-340) returns the accumulated results
OuterCatch == "returned"

CurIdx == PassList(pc, generatedTasks)[i]

CurTask == generatedTasks[CurIdx]

(***************************************************************************)
(* Array.prototype.find with a callback that may throw: throws[k] and      *)
(* matches[k] tell what the callback does on rows[k]                       *)
(***************************************************************************)
Find(rows, throws, matches) ==
  LET hits == { k \in 1 .. Len(rows) : throws[k] \/ matches[k] }
  IN  IF hits = {} THEN [t |-> "none"]
      ELSE LET k == CHOOSE h \in hits : \A g \in hits : h <= g
           IN  IF throws[k] THEN [t |-> "throw"]
               ELSE [t |-> "found", row |-> rows[k]]


(***************************************************************************)
(* Create pass, one operation (part_005 lines 67-136).  `ok` tells whether *)
(* storage answers the INSERT; the outcome lists what the iteration pushes *)
(* on the results and the rows it inserts.                                 *)
(***************************************************************************)
Outcome(inserted, modified, deleted, conflicts, q) ==
  [inserted |-> inserted, modified |-> modified, deleted |-> deleted,
   conflicts |-> conflicts, q |-> q]

\* line 70
InvalidTitle(task) ==
  LET t == Field(task, "title")
  IN  ~Truthy(t) \/ ~IsString(t) \/ trim(TextOf(t)) = <<>>

InvalidDurationFalsyOnly(task) == ~Truthy(Field(task, "duration"))

\* line 79
InvalidDuration(task) ==
  LET d == Field(task, "duration")
  IN  ~Truthy(d) \/ d.k # "num" \/ d.n <= 0

SimilarTitleOneWay(existingTitle, title) ==
  includes(toLowerCase(existingTitle), substring(toLowerCase(title), PrefixLen))

\* the callback of existingTasks.find, lines 90-91
SimilarTitle(existingTitle, title) ==
  \/ includes(toLowerCase(existingTitle), substring(toLowerCase(title), PrefixLen))
  \/ includes(toLowerCase(title), substring(toLowerCase(existingTitle), PrefixLen))

\* existing.title.toLowerCase() throws unless the title is a string
TitleThrows(row) == ~IsString(row.title)

FindSimilarWithInserted(existing, task) ==
  LET all == existing \o results.insertedTasks
  IN  Find(all,
           [k \in 1 .. Len(all) |-> TitleThrows(all[k])],
           [k \in 1 .. Len(all) |->
              ~TitleThrows(all[k])
              /\ SimilarTitle(TextOf(all[k].title), TextOf(Field(task, "title")))])

FindSimilar(existing, task) ==
  Find(existing,
       [k \in 1 .. Len(existing) |-> TitleThrows(existing[k])],
       [k \in 1 .. Len(existing) |->
          ~TitleThrows(existing[k])
          /\ SimilarTitle(TextOf(existing[k].title), TextOf(Field(task, "title")))])

InsertedRowUntrimmed(task, user, id) ==
  Row(id, user, Field(task, "title"),
      OrElse(Field(task, "duration"), Num(DefaultDuration)),
      OrElse(Field(task, "importance"), Word("medium")),
      Word("todo"),
      OrElse(Field(task, "scheduledTime"), Null))

\* the parameters of the INSERT, lines 107-114
InsertedRow(task, user, id) ==
  Row(id, user, Str(trim(TextOf(Field(task, "title")))),
      OrElse(Field(task, "duration"), Num(DefaultDuration)),
      OrElse(Field(task, "importance"), Word("medium")),
      Word("todo"),
      OrElse(Field(task, "scheduledTime"), Null))

\* newTask, lines 117-124
NewTask(task, id) ==
  [id |-> id,
   title |-> Str(trim(TextOf(Field(task, "title")))),
   duration |-> OrElse(Field(task, "duration"), Num(DefaultDuration)),
   importance |-> OrElse(Field(task, "importance"), Word("medium")),
   scheduledTime |-> OrElse(Field(task, "scheduledTime"), Null),
   status |-> Word("todo")]

\* the identity carried by the pushed entry: insertResult.rows[0].id
InsertedId(id) == id

CreateOutcome(task, existing, user, id, ok) ==
  IF InvalidTitle(task) THEN
    Outcome(<<>>, <<>>, <<>>,
            <<Conflict("Invalid task title", Json(task),
                       "Tasks must have a valid title", Undef)>>, NoQuery)
  ELSE IF InvalidDuration(task) THEN
    Outcome(<<>>, <<>>, <<>>,
            <<Conflict("Invalid task duration", Field(task, "title"),
                       "Tasks must have a valid duration in minutes", Undef)>>, NoQuery)
  ELSE
    LET found == FindSimilar(existing, task)
        failed == <<Conflict("Failed to create task", Field(task, "title"),
                             "Task creation failed due to database error", Undef)>>
    IN  CASE found.t = "throw" -> Outcome(<<>>, <<>>, <<>>, failed, NoQuery)
          [] found.t = "found" ->
               Outcome(<<>>, <<>>, <<>>,
                       <<Conflict("Similar task already exists", found.row.title,
                                  "Consider updating existing task instead of creating",
                                  Field(task, "title"))>>, NoQuery)
          [] OTHER ->
               IF ok
                 THEN Outcome(<<NewTask(task, InsertedId(id))>>, <<>>, <<>>, <<>>,
                              Query("INSERT", id, user, TRUE, 1))
                 ELSE Outcome(<<>>, <<>>, <<>>, failed,
                              Query("INSERT", id, user, FALSE, 0))

\* results after an iteration
Push(res, out) ==
  [insertedTasks |-> res.insertedTasks \o out.inserted,
   modifiedTasks |-> res.modifiedTasks \o out.modified,
   deletedTasks |-> res.deletedTasks \o out.deleted,
   conflicts |-> res.conflicts \o out.conflicts]

TraceEntry(pass, out) == [idx |-> CurIdx, pass |-> pass, q |-> out.q]

CreateStep ==
  /\ pc = "create"
  /\ \E ok \in BOOLEAN :
       LET task == CurTask
           id == FreshId(nextId)
           out == CreateOutcome(task, existingTasks, userId, id, ok)
           pos == After("create", i, generatedTasks)
           stored == out.q.kind = "INSERT" /\ out.q.ok
       IN  /\ tasks' = IF stored THEN tasks \cup {InsertedRow(task, userId, id)} ELSE tasks
           /\ nextId' = IF stored THEN nextId + 1 ELSE nextId
           /\ results' = Push(results, out)
           /\ trace' = Append(trace, TraceEntry("create", out))
           /\ pc' = pos.pc
           /\ i' = pos.i
  /\ UNCHANGED <<proposals, opsUsed, userId, existingTasks, generatedTasks>>
  /\ UNCHANGED auxVars


(***************************************************************************)
(* Title rescue lookup (lines 169-171 and 243-245)                         *)
(***************************************************************************)
\* (task.title || '')
RescueTitle(task) == OrElse(Field(task, "title"), Str(<<>>))

\* t.title.toLowerCase() or (task.title || '').toLowerCase() throws on a non-string
RescueThrows(row, task) == ~IsString(row.title) \/ ~IsString(RescueTitle(task))

RescueMatches(row, task) ==
  toLowerCase(TextOf(row.title)) = toLowerCase(TextOf(RescueTitle(task)))

FindByTitle(existing, task) ==
  Find(existing,
       [k \in 1 .. Len(existing) |-> RescueThrows(existing[k], task)],
       [k \in 1 .. Len(existing) |->
          ~RescueThrows(existing[k], task) /\ RescueMatches(existing[k], task)])

MissingIdNever(task) == FALSE

\* if (!task.id), lines 150 and 224
MissingId(task) == ~Truthy(Field(task, "id"))

\* the rows a statement with WHERE id = $1 AND user_id = $2 addresses
HitAnyOwner(store, id, user) == { r \in store : r.id = id }

Hit(store, id, user) == { r \in store : r.id = id /\ r.user_id = user }

(***************************************************************************)
(* Delete pass, one operation (lines 147-212)                              *)
(***************************************************************************)
RescueDeleteProposedId(task, matchingTask) ==
  IF Field(task, "id").k = "str" THEN Field(task, "id").s ELSE matchingTask.id

\* the identity the rescue DELETE is issued against (line 176)
RescueDeleteId(task, matchingTask) == matchingTask.id

\* {...matchingTask, action: 'delete'}, line 177
RescuedDeletion(matchingTask) ==
  [id |-> matchingTask.id, user_id |-> matchingTask.user_id,
   title |-> matchingTask.title, duration_minutes |-> matchingTask.duration_minutes,
   importance |-> matchingTask.importance, status |-> matchingTask.status,
   scheduled_time |-> matchingTask.scheduled_time, action |-> Word("delete")]

\* deleteResult.rows[0]?.title: undefined when no row came back
ReturnedTitle(hit) == IF hit = {} THEN Undef ELSE (CHOOSE r \in hit : TRUE).title

\* lines 193-196
Deletion(task, returnedTitle) ==
  [id |-> TextOf(Field(task, "id")),
   title |-> OrElse(returnedTitle,
                    OrElse(Field(task, "title"),
                           Str(<<"T","a","s","k"," ">> \o TextOf(Field(task, "id")))))]

RowsAffectedAlways(rowCount) == rowCount >= 0

\* rowCount && rowCount > 0, line 192
RowsAffected(rowCount) == rowCount > 0

DeleteOutcome(task, existing, user, store, ok) ==
  LET id == Field(task, "id") IN
  IF MissingId(task) THEN
    Outcome(<<>>, <<>>, <<>>,
            <<Conflict("Cannot delete task without ID",
                       OrElse(Field(task, "title"), Json(task)),
                       "Skipping deletion due to missing ID", Undef)>>, NoQuery)
  ELSE IF ~isValidUUID(id) THEN
    LET invalid == <<Conflict("Invalid UUID format for deletion", id,
                              "Skipping deletion due to invalid UUID format", Undef)>>
        found == FindByTitle(existing, task)
    IN  IF found.t = "found" /\ isValidUUID(Str(found.row.id))
          THEN LET target == RescueDeleteId(task, found.row)
                   q == Query("DELETE", target, user, ok,
                              IF ok THEN Cardinality(Hit(store, target, user)) ELSE 0)
               IN  IF ok
                     THEN Outcome(<<>>, <<>>, <<RescuedDeletion(found.row)>>, invalid, q)
                     ELSE Outcome(<<>>, <<>>, <<>>, invalid, q)
          ELSE Outcome(<<>>, <<>>, <<>>, invalid, NoQuery)
  ELSE
    LET hit == Hit(store, id.s, user)
        q == Query("DELETE", id.s, user, ok, IF ok THEN Cardinality(hit) ELSE 0)
    IN  IF ~ok THEN
          Outcome(<<>>, <<>>, <<>>,
                  <<Conflict("Failed to delete task with ID", id,
                             "Database error during deletion", Undef)>>, q)
        ELSE IF RowsAffected(q.rowCount) THEN
          Outcome(<<>>, <<>>, <<Deletion(task, ReturnedTitle(hit))>>, <<>>, q)
        ELSE
          Outcome(<<>>, <<>>, <<>>,
                  <<Conflict("No task found with ID", id,
                             "Task may have been already deleted or does not exist", Undef)>>, q)

\* the table after a DELETE ... WHERE id = $1 AND user_id = $2
ApplyDelete(store, q) ==
  IF q.kind = "DELETE" /\ q.ok THEN store \ Hit(store, q.id, q.user) ELSE store

DeleteStep ==
  /\ pc = "delete"
  /\ \E ok \in BOOLEAN :
       LET out == DeleteOutcome(CurTask, existingTasks, userId, tasks, ok)
           pos == After("delete", i, generatedTasks)
       IN  /\ tasks' = ApplyDelete(tasks, out.q)
           /\ results' = Push(results, out)
           /\ trace' = Append(trace, TraceEntry("delete", out))
           /\ pc' = pos.pc
           /\ i' = pos.i
  /\ UNCHANGED <<nextId, proposals, opsUsed, userId, existingTasks, generatedTasks>>
  /\ UNCHANGED auxVars

(***************************************************************************)
(* Modify pass, one operation (lines 221-323)                              *)
(***************************************************************************)
Update(id, user, ok, rowCount, mode, params) ==
  [kind |-> "UPDATE", id |-> id, user |-> user, ok |-> ok, rowCount |-> rowCount,
   mode |-> mode, params |-> params]

\* the parameters $1..$5 of the rescue UPDATE, lines 259-265
RescueParams(task, matchingTask) ==
  [title |-> OrElse(Field(task, "title"), matchingTask.title),
   duration |-> OrElse(Field(task, "duration"), matchingTask.duration_minutes),
   importance |-> OrElse(Field(task, "importance"), matchingTask.importance),
   status |-> OrElse(Field(task, "status"), matchingTask.status),
   scheduledTime |-> OrElse(Field(task, "scheduledTime"), matchingTask.scheduled_time)]

\* the parameters $1..$5 of the direct UPDATE, lines 293-297
DirectParams(task) ==
  [title |-> OrElse(Field(task, "title"), Null),
   duration |-> OrElse(Field(task, "duration"), Null),
   importance |-> OrElse(Field(task, "importance"), Null),
   status |-> OrElse(Field(task, "status"), Null),
   scheduledTime |-> OrElse(Field(task, "scheduledTime"), Null)]

\* SET title = $1, ..., scheduled_time = $5 (lines 252-257)
SetAll(row, p) ==
  [row EXCEPT !.title = p.title, !.duration_minutes = p.duration,
              !.importance = p.importance, !.status = p.status,
              !.scheduled_time = p.scheduledTime]

SetCoalesceOverwrite(row, p) == SetAll(row, p)

\* SET title = COALESCE($1, title), ..., scheduled_time = $5 (lines 285-290)
SetCoalesce(row, p) ==
  [row EXCEPT !.title = Coalesce(p.title, row.title),
              !.duration_minutes = Coalesce(p.duration, row.duration_minutes),
              !.importance = Coalesce(p.importance, row.importance),
              !.status = Coalesce(p.status, row.status),
              !.scheduled_time = p.scheduledTime]

UpdatedRow(row, q) ==
  IF q.mode = "all" THEN SetAll(row, q.params) ELSE SetCoalesce(row, q.params)

\* the table after an UPDATE ... WHERE id = $6 AND user_id = $7
ApplyUpdate(store, q) ==
  IF q.kind = "UPDATE" /\ q.ok
    THEN LET hit == Hit(store, q.id, q.user)
         IN  (store \ hit) \cup { UpdatedRow(r, q) : r \in hit }
    ELSE store

\* the identity the rescue UPDATE is issued against (line 265)
RescueModifyId(task, matchingTask) == matchingTask.id

\* lines 270-274
RescuedModification(task, matchingTask) ==
  [id |-> matchingTask.id,
   title |-> OrElse(Field(task, "title"), matchingTask.title),
   originalTitle |-> matchingTask.title]

\* lines 304-307
Modification(task, returnedTitle) ==
  [id |-> TextOf(Field(task, "id")),
   title |-> OrElse(Field(task, "title"), returnedTitle)]

ModifyOutcome(task, existing, user, store, ok) ==
  LET id == Field(task, "id") IN
  IF MissingId(task) THEN
    Outcome(<<>>, <<>>, <<>>,
            <<Conflict("Cannot modify task without ID",
                       OrElse(Field(task, "title"), Json(task)),
                       "Skipping modification due to missing ID", Undef)>>, NoQuery)
  ELSE IF ~isValidUUID(id) THEN
    LET invalid == <<Conflict("Invalid UUID format for modification", id,
                              "Skipping modification due to invalid UUID format", Undef)>>
        found == FindByTitle(existing, task)
    IN  IF found.t = "found" /\ isValidUUID(Str(found.row.id))
          THEN LET target == RescueModifyId(task, found.row)
                   q == Update(target, user, ok,
                               IF ok THEN Cardinality(Hit(store, target, user)) ELSE 0,
                               "all", RescueParams(task, found.row))
               IN  IF ok
                     THEN Outcome(<<>>, <<RescuedModification(task, found.row)>>, <<>>,
                                  invalid, q)
                     ELSE Outcome(<<>>, <<>>, <<>>, invalid, q)
          ELSE Outcome(<<>>, <<>>, <<>>, invalid, NoQuery)
  ELSE
    LET hit == Hit(store, id.s, user)
        q == Update(id.s, user, ok, IF ok THEN Cardinality(hit) ELSE 0,
                    "coalesce", DirectParams(task))
    IN  IF ~ok THEN
          Outcome(<<>>, <<>>, <<>>,
                  <<Conflict("Failed to modify task with ID", id,
                             "Database error during modification", Undef)>>, q)
        ELSE IF RowsAffected(q.rowCount) THEN
          Outcome(<<>>, <<Modification(task, ReturnedTitle({ UpdatedRow(r, q) : r \in hit }))>>,
                  <<>>, <<>>, q)
        ELSE
          Outcome(<<>>, <<>>, <<>>,
                  <<Conflict("No task found with ID for modification", id,
                             "Task may have been deleted or does not exist", Undef)>>, q)

ModifyStep ==
  /\ pc = "modify"
  /\ \E ok \in BOOLEAN :
       LET out == ModifyOutcome(CurTask, existingTasks, userId, tasks, ok)
           pos == After("modify", i, generatedTasks)
       IN  /\ tasks' = ApplyUpdate(tasks, out.q)
           /\ results' = Push(results, out)
           /\ trace' = Append(trace, TraceEntry("modify", out))
           /\ pc' = pos.pc
           /\ i' = pos.i
  /\ UNCHANGED <<nextId, proposals, opsUsed, userId, existingTasks, generatedTasks>>
  /\ UNCHANGED auxVars

(***************************************************************************)
(* The caller (aiController.ts): snapshot, batch, call, response           *)
(***************************************************************************)
\* every order in which SELECT * FROM tasks WHERE user_id = $1 may list the rows
Orders(rows) ==
  { s \in [1 .. Cardinality(rows) -> rows] :
      \A a, b \in 1 .. Cardinality(rows) : a # b => s[a] # s[b] }

\* alignTasksWithAIPlan lines 422-426, generateAITasks lines 217-221
ReadExisting ==
  /\ pc = "idle"
  /\ opsUsed < MaxOps
  /\ \E u \in Users :
       /\ userId' = u
       /\ existingTasks' \in Orders({ r \in tasks : r.user_id = u })
  /\ pc' = "fetched"
  /\ UNCHANGED <<tasks, nextId, proposals, opsUsed, generatedTasks, i, results, trace>>
  /\ UNCHANGED auxVars

Batches(pool, n) == UNION { [1 .. m -> pool] : m \in 0 .. n }

\* the call of alignTasksWithPlan up to the first filter (lines 43-65)
StartAlign ==
  /\ pc = "fetched"
  /\ \E batch \in Batches(Pool(proposals), MaxOps - opsUsed) :
       LET pos == FirstFrom("create", batch)
       IN  /\ generatedTasks' = batch
           /\ opsUsed' = opsUsed + Len(batch)
           /\ pc' = IF FilterThrows(batch) THEN OuterCatch ELSE pos.pc
           /\ i' = IF FilterThrows(batch) THEN 0 ELSE pos.i
  /\ results' = EmptyResults
  /\ trace' = <<>>
  /\ UNCHANGED <<tasks, nextId, proposals, userId, existingTasks>>
  /\ UNCHANGED auxVars

\* the caller sends the response (aiController.ts lines 504-523)
Respond ==
  /\ pc = "returned"
  /\ pc' = "idle"
  /\ generatedTasks' = <<>>
  /\ existingTasks' = <<>>
  /\ results' = EmptyResults
  /\ trace' = <<>>
  /\ i' = 0
  /\ UNCHANGED <<tasks, nextId, proposals, opsUsed, userId>>
  /\ UNCHANGED auxVars

(***************************************************************************)
(* Model Router: callOptimalAI (part_007 lines 15-166 and 222-301)         *)
(***************************************************************************)
ModelKeys ==
  { "mistral-medium-2505", "magistral-medium-2506", "mistral-large-2411",
    "mistral-small-2506", "magistral-small-2506", "codestral-2501",
    "ministral-8b-2410", "ministral-3b-2410", "mistral-large-latest",
    "mistral-small-latest" }

\* the name and the endpoint of every configured model
AI_MODELS ==
  [k \in ModelKeys |->
     [name |->
        CASE k = "mistral-medium-2505" -> "Mistral Medium 3"
          [] k = "magistral-medium-2506" -> "Magistral Medium"
          [] k = "mistral-large-2411" -> "Mistral Large 2.1"
          [] k = "mistral-small-2506" -> "Mistral Small 3.2"
          [] k = "magistral-small-2506" -> "Magistral Small"
          [] k = "codestral-2501" -> "Codestral 2"
          [] k = "ministral-8b-2410" -> "Ministral 8B"
          [] k = "ministral-3b-2410" -> "Ministral 3B"
          [] k = "mistral-large-latest" -> "Mistral Large (Legacy)"
          [] k = "mistral-small-latest" -> "Mistral Small (Legacy)",
      endpoint |-> k]]

TaskTypes == {"voice-extraction", "schedule-planning", "task-generation", "json-parsing"}

TASK_MODEL_PRIORITIES(type) ==
  CASE type = "voice-extraction" ->
         << "magistral-medium-2506", "magistral-small-2506", "mistral-large-2411",
            "mistral-small-2506", "ministral-8b-2410", "mistral-large-latest" >>
    [] type = "schedule-planning" ->
         << "mistral-medium-2505", "mistral-large-2411", "magistral-medium-2506",
            "mistral-small-2506", "magistral-small-2506", "mistral-small-latest" >>
    [] type = "task-generation" ->
         << "mistral-small-2506", "magistral-small-2506", "mistral-large-2411",
            "ministral-8b-2410", "ministral-3b-2410", "mistral-small-latest" >>
    [] type = "json-parsing" ->
         << "codestral-2501", "magistral-small-2506", "mistral-small-2506",
            "ministral-8b-2410", "ministral-3b-2410" >>

priorityModelsDefaultOnly(type) == TASK_MODEL_PRIORITIES("task-generation")

\* line 232: TASK_MODEL_PRIORITIES[taskType] || TASK_MODEL_PRIORITIES['task-generation']
priorityModels(type) ==
  IF type \in TaskTypes THEN TASK_MODEL_PRIORITIES(type)
  ELSE TASK_MODEL_PRIORITIES("task-generation")

\* the map is empty at start: get(modelKey) || {successes: 0, failures: 0, ...}
NoPerformance == [k \in ModelKeys |-> [successes |-> 0, failures |-> 0]]

\* lines 155-166, without avgResponseTime (a function of the clock that nothing reads)
trackModelPerformance(perf, modelKey, success) ==
  [perf EXCEPT ![modelKey] =
     IF success THEN [@ EXCEPT !.successes = @ + 1]
     ELSE [@ EXCEPT !.failures = @ + 1]]

\* what one request to the completion service can end in: a parsed body, or an error
\* thrown by line 269 (a status that is not ok), by fetch (network) or by
\* response.json() (unparseable body)
Failures ==
  { "HTTP 429: rate limit exceeded", "HTTP 503: unavailable", "HTTP 500: internal error",
    "fetch failed", "Unexpected token < in JSON at position 0" }

\* the service's behaviour in a run: in the runs of the request handlers it is either
\* up or down for a whole call; otherwise every request ends in any way
BackendReplies ==
  IF proposals = "handlers"
    THEN IF attemptCount = 1 THEN {"ok", "HTTP 503: unavailable"}
         ELSE {"HTTP 503: unavailable"}
    ELSE {"ok"} \cup Failures

\* `${model.name} (${model.endpoint})`, line 277
modelUsed(model) == [name |-> model.name, endpoint |-> model.endpoint]

SuccessResultCountsFailures(model, count) ==
  [k |-> "result", modelUsed |-> modelUsed(model), attemptCount |-> count - 1]

\* lines 275-279
SuccessResult(model, count) ==
  [k |-> "result", modelUsed |-> modelUsed(model), attemptCount |-> count]

\* lines 289-290
IsTransient(message) ==
  message \in {"HTTP 429: rate limit exceeded", "HTTP 503: unavailable"}

FailFast(message) == IF IsTransient(message) THEN "next" ELSE "throw"

\* lines 288-296: `continue` for a transient error, and the end of the catch block for
\* any other, both lead to the next model
AfterFailure(message) == IF IsTransient(message) THEN "next" ELSE "next"

\* lastError?.message || 'Unknown error'
LastMessage(error) ==
  IF error.k = "null" THEN "Unknown error"
  ELSE IF error.message = "" THEN "Unknown error"
  ELSE error.message

\* line 300
AllModelsFailed(count, error) ==
  [k |-> "error", prefix |-> "All AI models failed after", attempts |-> count,
   lastError |-> LastMessage(error)]

RouterIdle ==
  /\ rpc = "idle"
  /\ taskType = "none"
  /\ attemptCount = 0
  /\ lastError = Null
  /\ requested = <<>>
  /\ routerResult = [k |-> "none"]

\* lines 232-235: the call starts
BeginCall(type) ==
  /\ taskType' = type
  /\ attemptCount' = 0
  /\ lastError' = Null
  /\ requested' = <<>>
  /\ routerResult' = [k |-> "none"]
  /\ rpc' = "request"
  /\ callsMade' = callsMade + 1
  /\ UNCHANGED modelPerformance

\* a caller invokes callOptimalAI
callOptimalAI ==
  /\ rpc = "idle"
  /\ callsMade < MaxCalls
  /\ \E type \in TaskTypes \cup {"summarisation"} : BeginCall(type)
  /\ UNCHANGED notRouterVars

\* lines 237-263: the next iteration of the loop issues its request
Request ==
  /\ rpc = "request"
  /\ LET count == attemptCount + 1
         modelKey == priorityModels(taskType)[count]
     IN  /\ attemptCount' = count
         /\ IF modelKey \notin DOMAIN AI_MODELS
              THEN /\ requested' = requested
                   /\ IF count < Len(priorityModels(taskType))
                        THEN rpc' = "request" /\ routerResult' = routerResult
                        ELSE /\ rpc' = "threw"
                             /\ routerResult' = AllModelsFailed(count, lastError)
              ELSE /\ requested' = Append(requested, [model |-> modelKey, outcome |-> "pending"])
                   /\ rpc' = "await"
                   /\ routerResult' = routerResult
  /\ UNCHANGED <<modelPerformance, callsMade, taskType, lastError>>
  /\ UNCHANGED notRouterVars

\* lines 265-300: the request settles
Settle ==
  /\ rpc = "await"
  /\ \E reply \in BackendReplies :
       LET modelKey == priorityModels(taskType)[attemptCount]
           settled == [requested EXCEPT ![Len(requested)].outcome =
                         IF reply = "ok" THEN "ok" ELSE "failed"]
           error == [k |-> "error", message |-> reply]
       IN  /\ requested' = settled
           /\ modelPerformance' = trackModelPerformance(modelPerformance, modelKey, reply = "ok")
           /\ IF reply = "ok"
                THEN /\ routerResult' = SuccessResult(AI_MODELS[modelKey], attemptCount)
                     /\ rpc' = "returned"
                     /\ lastError' = lastError
                ELSE /\ lastError' = error
                     /\ IF AfterFailure(reply) = "next"
                             /\ attemptCount < Len(priorityModels(taskType))
                          THEN rpc' = "request" /\ routerResult' = routerResult
                          ELSE /\ rpc' = "threw"
                               /\ routerResult' = AllModelsFailed(attemptCount, error)
  /\ UNCHANGED <<callsMade, taskType, attemptCount>>
  /\ UNCHANGED notRouterVars

\* the caller has the result or the error; the call's locals are gone
EndCall ==
  /\ taskType' = "none"
  /\ attemptCount' = 0
  /\ lastError' = Null
  /\ requested' = <<>>
  /\ routerResult' = [k |-> "none"]
  /\ rpc' = "idle"
  /\ UNCHANGED <<modelPerformance, callsMade>>

CallDone ==
  /\ rpc \in {"returned", "threw"}
  /\ EndCall
  /\ UNCHANGED notRouterVars

(***************************************************************************)
(* Response Sanitizer: cleanAIResponse (part_007 lines 169-219).  A text   *)
(* is a sequence of characters; "u2022" stands for the bullet character    *)
(* and "u0060" for the backtick.                                           *)
(***************************************************************************)
MinLength == 10

MaxLength == 1000

TruncateAt == 800

\* the canned reply of lines 171 and 204
FallbackText ==
  <<"I","'","d"," ","b","e"," ","h","a","p","p","y"," ","t","o"," ","h","e",
    "l","p"," ","w","i","t","h"," ","y","o","u","r"," ","q","u","e","s","t",
    "i","o","n","!"," ","C","o","u","l","d"," ","y","o","u"," ","p","r","o",
    "v","i","d","e"," ","m","o","r","e"," ","d","e","t","a","i","l","s"," ",
    "s","o"," ","I"," ","c","a","n"," ","g","i","v","e"," ","y","o","u"," ",
    "b","e","t","t","e","r"," ","a","d","v","i","c","e","?">>

MinOf(S) == CHOOSE x \in S : \A y \in S : x <= y

\* the numbers of S in increasing order
Sorted(S) ==
  [k \in 1 .. Cardinality(S) |-> CHOOSE x \in S : Cardinality({ y \in S : y < x }) = k - 1]

\* s without the characters at the positions in `removed`
Without(s, removed) ==
  LET kept == SelectSeq([k \in 1 .. Len(s) |-> k], LAMBDA k : k \notin removed)
  IN  [j \in 1 .. Len(kept) |-> s[kept[j]]]

\* the positions at which `needle` begins in s; ci: compared as the /i flag does
Occurrences(s, needle, ci) ==
  { p \in 1 .. Len(s) - Len(needle) + 1 :
      \A j \in 1 .. Len(needle) :
         IF ci THEN LowerChar(s[p + j - 1]) = LowerChar(needle[j])
         ELSE s[p + j - 1] = needle[j] }

\* what `.` does not match
LineBreaks(s) == { p \in 1 .. Len(s) : s[p] \in {"\n", "\r"} }

\* where ^ matches under the /m flag
LineStarts(s) == { p \in 1 .. Len(s) : p = 1 \/ s[p - 1] \in {"\n", "\r"} }

\* the last position of the run of whitespace that begins at p (p - 1 if there is none)
SpaceRunEnd(s, p) ==
  LET stops == { q \in p .. Len(s) : ~IsSpace(s[q]) }
  IN  IF stops = {} THEN Len(s) ELSE MinOf(stops) - 1

\* the matches, from `from` on, of a global replace with the pattern
\* open inner*? close, where inner matches any character not at a position of
\* `barriers`: each match begins at the leftmost possible opening and ends with the
\* nearest closing
RECURSIVE LazySpans(_, _, _, _, _, _)
LazySpans(from, opens, openLen, closes, closeLen, barriers) ==
  LET ends(o) == { c \in closes :
                     /\ c >= o + openLen
                     /\ \A b \in barriers : ~(b >= o + openLen /\ b < c) }
      starts == { o \in opens : o >= from /\ ends(o) # {} }
  IN  IF starts = {} THEN <<>>
      ELSE LET o == MinOf(starts)
               c == MinOf(ends(o))
           IN  <<[from |-> o, to |-> c + closeLen - 1, open |-> openLen, close |-> closeLen]>>
                 \o LazySpans(c + closeLen, opens, openLen, closes, closeLen, barriers)

\* String.prototype.replace over the matches `spans`: each is dropped (''), replaced
\* by its group ('$1') or by `text`
RECURSIVE Replace(_, _, _, _)
Replace(s, spans, mode, text) ==
  IF spans = <<>> THEN s
  ELSE LET m == spans[Len(spans)]
           put == CASE mode = "drop" -> <<>>
                    [] mode = "group" -> SubSeq(s, m.from + m.open, m.to - m.close)
                    [] mode = "text" -> text
       IN  Replace(SubSeq(s, 1, m.from - 1), SubSeq(spans, 1, Len(spans) - 1), mode, text)
             \o put \o SubSeq(s, m.to + 1, Len(s))

\* lines 177-182: replace(/<name>[\s\S]*?<\/name>/gi, '')
removeTag(s, name) ==
  LET open == <<"<">> \o name \o <<">">>
      close == <<"<", "/">> \o name \o <<">">>
  IN  Replace(s, LazySpans(1, Occurrences(s, open, TRUE), Len(open),
                           Occurrences(s, close, TRUE), Len(close), {}),
              "drop", <<>>)

\* lines 185-187: replace(/^[Ll]abel:[\s\S]*?\n\n/gm, '')
removeLabel(s, upper, lower, rest) ==
  LET opens == { p \in LineStarts(s) :
                   s[p] \in {upper, lower} /\ (p + 1) \in Occurrences(s, rest, FALSE) }
  IN  Replace(s, LazySpans(1, opens, 1 + Len(rest),
                           Occurrences(s, <<"\n", "\n">>, FALSE), 2, {}),
              "drop", <<>>)

\* lines 190-193: replace(/delim(.*?)delim/g, '$1')
unwrap(s, delim) ==
  Replace(s, LazySpans(1, Occurrences(s, delim, FALSE), Len(delim),
                       Occurrences(s, delim, FALSE), Len(delim), LineBreaks(s)),
          "group", <<>>)

\* line 194: replace(/#{1,6}\s*/g, '')
stripHeaders(s) ==
  Without(s, { p \in 1 .. Len(s) :
                 \/ s[p] = "#"
                 \/ /\ IsSpace(s[p])
                    /\ \E q \in 1 .. p - 1 :
                         s[q] = "#" /\ \A r \in q + 1 .. p : IsSpace(s[r]) })

\* the length of the list marker at p: one of - * + , or (numbered) digits and a dot
MarkerLen(s, p, numbered) ==
  IF ~numbered THEN (IF s[p] \in {"-", "*", "+"} THEN 1 ELSE 0)
  ELSE LET dots == { d \in p + 1 .. Len(s) :
                       s[d] = "." /\ \A r \in p .. d - 1 : s[r] \in Range(DigitChars) }
       IN  IF dots = {} THEN 0 ELSE MinOf(dots) - p + 1

\* the matches of /^\s*[-*+]\s*/gm or /^\s*\d+\.\s*/gm from `from` on
RECURSIVE ListSpans(_, _, _)
ListSpans(s, from, numbered) ==
  LET marker(L) == SpaceRunEnd(s, L) + 1
      cands == { L \in LineStarts(s) :
                   /\ L >= from
                   /\ marker(L) <= Len(s)
                   /\ MarkerLen(s, marker(L), numbered) > 0 }
  IN  IF cands = {} THEN <<>>
      ELSE LET L == MinOf(cands)
               e == SpaceRunEnd(s, marker(L) + MarkerLen(s, marker(L), numbered))
           IN  <<[from |-> L, to |-> e, open |-> 0, close |-> 0]>>
                 \o ListSpans(s, e + 1, numbered)

\* lines 195-196: the list items become "u2022 "
bulletItems(s, numbered) == Replace(s, ListSpans(s, 1, numbered), "text", <<"u2022", " ">>)

\* line 199: replace(/\n{3,}/g, '\n\n')
collapseNewlines(s) ==
  LET runEnd(p) == MinOf({ q \in p .. Len(s) : q = Len(s) \/ s[q + 1] # "\n" })
      starts == Sorted({ p \in 1 .. Len(s) :
                           /\ s[p] = "\n"
                           /\ (p = 1 \/ s[p - 1] # "\n")
                           /\ runEnd(p) - p + 1 >= 3 })
  IN  Replace(s, [k \in 1 .. Len(starts) |->
                    [from |-> starts[k], to |-> runEnd(starts[k]), open |-> 0, close |-> 0]],
              "text", <<"\n", "\n">>)

\* String.prototype.split(/[.!?]+/)
splitSentences(s) ==
  LET T == { p \in 1 .. Len(s) : s[p] \in {".", "!", "?"} }
      firsts == Sorted({ p \in T : (p - 1) \notin T })
      lasts == Sorted({ p \in T : (p + 1) \notin T })
      n == Len(firsts)
  IN  [k \in 1 .. n + 1 |->
         SubSeq(s, IF k = 1 THEN 1 ELSE lasts[k - 1] + 1,
                   IF k = n + 1 THEN Len(s) ELSE firsts[k] - 1)]

\* line 212: if ((result + sentence).length > 800) break
TooLong(result, sentence) == Len(result \o sentence) > TruncateAt

\* lines 210-214: the loop over the sentences, from the k-th on
RECURSIVE accumulate(_, _, _)
accumulate(sentences, k, result) ==
  IF k > Len(sentences) THEN result
  ELSE IF TooLong(result, sentences[k]) THEN result
  ELSE accumulate(sentences, k + 1, result \o trim(sentences[k]) \o <<".", " ">>)

\* lines 208-216
truncate(s) == trim(accumulate(splitSentences(s), 1, <<>>))

TagNames == << <<"t","h","i","n","k">>, <<"d","e","b","u","g">>, <<"r","e","a","s","o","n","i","n","g">>, <<"a","n","a","l","y","s","i","s">> >>

\* lines 169-219; the result is a text
cleanAIResponse(raw) ==
  IF ~Truthy(raw) \/ ~IsString(raw) THEN FallbackText
  ELSE
    LET t0 == trim(TextOf(raw))
        t1 == removeTag(removeTag(removeTag(removeTag(t0, TagNames[1]), TagNames[2]),
                                  TagNames[3]), TagNames[4])
        t2 == removeLabel(removeLabel(removeLabel(t1, "T", "t", <<"h","i","n","k","i","n","g",":">>),
                                      "D", "d", <<"e","b","u","g",":">>),
                          "A", "a", <<"n","a","l","y","s","i","s",":">>)
        t3 == unwrap(unwrap(unwrap(unwrap(t2, <<"*", "*">>), <<"*">>), <<"_", "_">>), <<"u0060">>)
        t4 == stripHeaders(t3)
        t5 == bulletItems(bulletItems(t4, FALSE), TRUE)
        t6 == trim(collapseNewlines(t5))
    IN  IF t6 = <<>> \/ Len(t6) < MinLength THEN FallbackText
        ELSE IF Len(t6) > MaxLength THEN truncate(t6)
        ELSE t6

(***************************************************************************)
(* Raw replies handed to cleanAIResponse: null, undefined, a number, and   *)
(* every text made of an opening, a body and an ending below               *)
(***************************************************************************)
Repeat(unit, n) == [k \in 1 .. n * Len(unit) |-> unit[((k - 1) % Len(unit)) + 1]]

Openings ==
  { <<>>, <<" "," ","\n">>, <<"<","t","h","i","n","k",">","p","l","a","n","<","/","t","h","i","n","k",">","\n">>, <<"T","h","i","n","k","i","n","g",":"," ","s","t","e","p"," ","o","n","e","\n","\n">>,
    <<"#","#"," ">>, <<"-"," ">> }

Bodies ==
  { <<>>, <<"o","k">>, <<"D","r","i","n","k"," ","w","a","t","e","r",".">>, <<"*","*","F","o","c","u","s","*","*"," ","o","n"," ","u0060","o","n","e","u0060"," ","t","a","s","k">>,
    <<"1","."," ","P","l","a","n","\n","2","."," ","D","o","\n","\n","\n","\n","3","."," ","R","e","s","t">>,
    Repeat(<<"T","a","k","e"," ","a"," ","s","h","o","r","t"," ","b","r","e","a","k"," ","n","o","w","."," ">>, 50),
    Repeat(<<"a">>, 1001),
    Repeat(<<"w","o","r","d"," ">>, 170) \o <<"."," ">> \o Repeat(<<"T","h","e","n"," ","r","e","s","t","."," ">>, 20) }

Endings == { <<>>, <<"\n","\n","\n">>, <<"<","D","E","B","U","G",">","t","r","a","c","e","<","/","D","E","B","U","G",">">> }

RawResponses ==
  {Null, Undef, Num(42)}
    \cup { Str(a \o b \o c) : a \in Openings, b \in Bodies, c \in Endings }

CleanerIdle == rawResponse = Undef /\ cleaned = [k |-> "none"]

\* a handler passes the reply of the model to cleanAIResponse
CleanReply ==
  /\ cleaned.k = "none"
  /\ cleaned' = Str(cleanAIResponse(rawResponse))
  /\ UNCHANGED rawResponse
  /\ UNCHANGED notTextVars

(***************************************************************************)
(* Primary extraction (aiController.ts lines 61-65, 292-296, 484-488;      *)
(* planController.ts lines 150-154): the greedy match of /\[[\s\S]*\]/ or  *)
(* /\{[\s\S]*\}/ handed to JSON.parse.  Texts hold no escape sequences.    *)
(***************************************************************************)
Shapes == {"array", "object"}

OpenOf(kind) == IF kind = "array" THEN "[" ELSE "{"

CloseOf(kind) == IF kind = "array" THEN "]" ELSE "}"

NoMatch == [k |-> "null"]

\* text.match(/\[[\s\S]*\]/) or text.match(/\{[\s\S]*\}/): from the first opening
\* bracket to the last closing bracket after it
jsonMatch(kind, text) ==
  LET opens == { p \in 1 .. Len(text) : text[p] = OpenOf(kind) }
      closes == { p \in 1 .. Len(text) : text[p] = CloseOf(kind) }
  IN  IF opens = {} \/ { c \in closes : c > MinOf(opens) } = {} THEN NoMatch
      ELSE LET first == MinOf(opens)
               last == CHOOSE c \in closes : \A d \in closes : d <= c
           IN  Str(SubSeq(text, first, last))

\* the first position from p on that holds no JSON whitespace
SkipSpace(s, p) ==
  LET stops == { q \in p .. Len(s) : ~IsSpace(s[q]) }
  IN  IF stops = {} THEN Len(s) + 1 ELSE MinOf(stops)

\* JSON.parse, a string literal opening at q: the position after it, 0 if malformed
StringEnd(s, q) ==
  LET quotes == { c \in q + 1 .. Len(s) : s[c] = "\"" }
  IN  IF quotes = {} THEN 0
      ELSE IF \E c \in q + 1 .. MinOf(quotes) : s[c] \in {"\n", "\r", "\t"} THEN 0
      ELSE MinOf(quotes) + 1

\* JSON.parse, a number beginning at q
NumberEnd(s, q) ==
  LET from == IF s[q] = "-" THEN q + 1 ELSE q
      stops == { c \in from .. Len(s) : s[c] \notin Range(DigitChars) }
      end == IF stops = {} THEN Len(s) + 1 ELSE MinOf(stops)
  IN  IF end = from THEN 0
      ELSE IF s[from] = "0" /\ end > from + 1 THEN 0
      ELSE end

Literals == { <<"t","r","u","e">>, <<"f","a","l","s","e">>, <<"n","u","l","l">> }

\* JSON.parse, one of true, false and null beginning at q
LiteralEnd(s, q) ==
  LET fits == { w \in Literals : q + Len(w) - 1 <= Len(s) /\ SubSeq(s, q, q + Len(w) - 1) = w }
  IN  IF fits = {} THEN 0 ELSE q + Len(CHOOSE w \in fits : TRUE)

\* JSON.parse by recursive descent: the position after the value (the elements of an
\* array, the members of an object) that begins at p, 0 if there is none
RECURSIVE ValueEnd(_, _), ElementsEnd(_, _), MembersEnd(_, _)
ValueEnd(s, p) ==
  LET q == SkipSpace(s, p)
  IN  IF q > Len(s) THEN 0
      ELSE IF s[q] = "[" THEN
        (IF SkipSpace(s, q + 1) <= Len(s) /\ s[SkipSpace(s, q + 1)] = "]"
           THEN SkipSpace(s, q + 1) + 1 ELSE ElementsEnd(s, q + 1))
      ELSE IF s[q] = "{" THEN
        (IF SkipSpace(s, q + 1) <= Len(s) /\ s[SkipSpace(s, q + 1)] = "}"
           THEN SkipSpace(s, q + 1) + 1 ELSE MembersEnd(s, q + 1))
      ELSE IF s[q] = "\"" THEN StringEnd(s, q)
      ELSE IF s[q] = "-" \/ s[q] \in Range(DigitChars) THEN NumberEnd(s, q)
      ELSE LiteralEnd(s, q)

ElementsEnd(s, p) ==
  LET v == ValueEnd(s, p)
      r == SkipSpace(s, v)
  IN  IF v = 0 \/ r > Len(s) THEN 0
      ELSE IF s[r] = "," THEN ElementsEnd(s, r + 1)
      ELSE IF s[r] = "]" THEN r + 1
      ELSE 0

MembersEnd(s, p) ==
  LET q == SkipSpace(s, p)
      e == IF q <= Len(s) /\ s[q] = "\"" THEN StringEnd(s, q) ELSE 0
      c == SkipSpace(s, e)
      v == IF e # 0 /\ c <= Len(s) /\ s[c] = ":" THEN ValueEnd(s, c + 1) ELSE 0
      r == SkipSpace(s, v)
  IN  IF v = 0 \/ r > Len(s) THEN 0
      ELSE IF s[r] = "," THEN MembersEnd(s, r + 1)
      ELSE IF s[r] = "}" THEN r + 1
      ELSE 0

\* JSON.parse(text) does not throw
JSONparses(text) ==
  LET v == ValueEnd(text, 1)
  IN  v # 0 /\ SkipSpace(text, v) > Len(text)

ParseFailed == [k |-> "failed"]

\* the value JSON.parse gives, known by the text it was parsed from
Parsed(text) == [k |-> "json", s |-> text]

\* the try block of the primary extraction: the parsed value, or ParseFailed when
\* there is no match or JSON.parse throws
extract(kind, text) ==
  LET m == jsonMatch(kind, text)
  IN  IF m = NoMatch THEN ParseFailed
      ELSE IF JSONparses(m.s) THEN Parsed(m.s)
      ELSE ParseFailed

(***************************************************************************)
(* AI texts: some prose, a payload, some prose                             *)
(***************************************************************************)
Leads == { <<>>, <<"H","e","r","e"," ","a","r","e"," ","y","o","u","r"," ","t","a","s","k","s",":","\n">>, <<"S","u","r","e","!"," ">>, <<"A","s"," ","n","o","t","e","d"," ","[","a","b","o","v","e","]"," ">>  }

Payloads ==
  { <<>>, <<"[","]">>, <<"[","{","\"","t","i","t","l","e","\"",":","\"","P","l","a","n"," ","d","a","y","\"",",","\"","d","u","r","a","t","i","o","n","\"",":","3","0","}","]">>,
    <<"[","{","\"","t","i","t","l","e","\"",":","\"","a","]","b","\"","}",","," ","{","\"","t","i","t","l","e","\"",":","\"","c","\"","}","]">>, <<"[","[","1","]",",","[","2",","," ","3","]","]">>,
    <<"[","{","\"","t","i","t","l","e","\"",":","\"","x","\"",",","}","]">>, <<"[","{","\"","t","i","t","l","e","\"",":","\"","x","\"","}">>,
    <<"{","}">>, <<"{","\"","s","c","h","e","d","u","l","e","\"",":","[","{","\"","t","i","m","e","\"",":","\"","0","9",":","0","0","\"",",","\"","t","a","s","k","\"",":","\"","x","\"","}","]","}">>,
    <<"{","\"","a","\"",":","{","\"","b","\"",":","t","r","u","e","}","}">>, <<"{","\"","a","\"",":","}">> }

Trails ==
  { <<>>, <<"\n","H","o","p","e"," ","t","h","i","s"," ","h","e","l","p","s","!">>, <<" ","S","e","e"," ","[","1","]"," ","f","o","r"," ","d","e","t","a","i","l","s",".">>,
    <<" ","U","s","e"," ","{","b","r","a","c","e","s","}"," ","f","r","e","e","l","y",".">>, <<"]">> }

AITexts == { a \o b \o c : a \in Leads, b \in Payloads, c \in Trails }

ExtractorIdle == aiResponse = <<>> /\ shape = "array" /\ parsed = [k |-> "none"]

\* the handler extracts the JSON of the reply
Extract ==
  /\ parsed.k = "none"
  /\ parsed' = extract(shape, aiResponse)
  /\ UNCHANGED <<aiResponse, shape>>
  /\ UNCHANGED notExtractVars

(***************************************************************************)
(* Request handlers (controllers).  A handler is a program of steps run    *)
(* inside try { ... } catch { respond 500 } finally { end the connection };*)
(* `journal` lists what the current request has done so far.               *)
(***************************************************************************)
\* a validation of the request that returns 400; inTry: the return is inside the try
Check(inTry) == [op |-> "check", inTry |-> inTry]

\* sql = await getDbConnection()
Connect == [op |-> "connect"]

\* await sql.query(q); onError: swallow (own try/catch) or throw; onEmpty: the status
\* returned early when no row is found or affected, 0 if there is no such return
Run(q, onError, onEmpty) == [op |-> "query", q |-> q, onError |-> onError, onEmpty |-> onEmpty]

\* await fetch(...) of weather or APOD data
Fetch(onError) == [op |-> "fetch", onError |-> onError]

\* await callOptimalAI(messages, type, options) and the reading of the reply's content
Ask(type) == [op |-> "ai", type |-> type]

\* the extraction of the JSON of the reply
Parse(kind) == [op |-> "parse", shape |-> kind]

\* the parsed tasks go to alignTasksWithPlan or to the insert loop
Apply == [op |-> "apply"]

\* res.json(...) or return res.status(200).json(...) at the end of the try block
Send == [op |-> "respond"]

\* taskController.ts and taskController.archiveTasks.ts
TaskPrograms(h) ==
  CASE h = "createTask" ->
         <<Connect, Run("ensureUser", "swallow", 0), Check(TRUE), Run("insertTask", "throw", 0), Send>>
    [] h = "getTasks" -> <<Connect, Run("selectTasks", "throw", 0), Send>>
    [] h = "updateTask" ->
         <<Check(FALSE), Connect, Run("selectOwned", "throw", 404),
           Run("updateById", "throw", 0), Send>>
    [] h = "deleteTask" -> <<Check(FALSE), Connect, Run("deleteOwned", "throw", 404), Send>>
    [] h = "clearTasks" -> <<Connect, Run("clear", "throw", 0), Send>>

\* planController.ts
PlanPrograms(h) ==
  CASE h = "getPlan" -> <<Connect, Run("selectPlan", "throw", 200), Send>>
    [] h = "generatePlan" ->
         <<Connect, Run("ensureUser", "swallow", 0), Run("selectPrefsAndTasks", "throw", 400),
           Fetch("swallow"), Fetch("swallow"), Ask("schedule-planning"), Parse("object"),
           Run("upsertPlan", "swallow", 0), Send>>

\* aiController.ts
AIPrograms(h) ==
  CASE h = "extractTasksFromVoice" ->
         <<Check(TRUE), Connect, Run("selectPrefs", "throw", 0), Ask("voice-extraction"),
           Parse("array"), Send>>
    [] h = "generateAITasks" ->
         <<Connect, Run("selectPlan", "throw", 0), Run("ensureUser", "swallow", 0),
           Run("selectPrefs", "throw", 400), Run("selectTasks", "throw", 0), Fetch("swallow"),
           Ask("task-generation"), Parse("array"), Apply, Send>>
    [] h = "alignTasksWithAIPlan" ->
         <<Connect, Run("selectPlan", "throw", 400), Run("selectTasks", "throw", 0),
           Run("selectPrefs", "throw", 0), Ask("task-generation"), Parse("array"), Apply, Send>>
    [] h = "dictateKanbanTasks" ->
         <<Connect, Run("selectTasks", "throw", 200), Run("selectPrefs", "throw", 0),
           Fetch("swallow"), Ask("task-generation"), Send>>
    [] h = "askKanbanAI" ->
         <<Check(TRUE), Connect, Run("selectContext", "throw", 0), Fetch("swallow"),
           Ask("voice-extraction"), Send>>
    [] h = "getPerformanceInsights" ->
         <<Connect, Run("selectContext", "throw", 0), Ask("task-generation"), Send>>
    [] h = "getWeather" -> <<Connect, Run("selectPrefs", "throw", 400), Fetch("throw"), Send>>

\* preferencesController.ts
PreferencePrograms(h) ==
  CASE h = "savePreferences" ->
         <<Connect, Run("ensureUser", "swallow", 0), Check(TRUE),
           Run("upsertPrefs", "throw", 0), Send>>
    [] h = "getPreferences" -> <<Connect, Run("selectPrefs", "throw", 200), Send>>

\* gameController.ts
GamePrograms(h) ==
  CASE h = "saveGameHighScore" ->
         <<Check(TRUE), Connect, Run("selectScore", "throw", 0), Run("saveScore", "throw", 0), Send>>
    [] h = "getGameHighScore" -> <<Connect, Run("selectScore", "throw", 0), Send>>
    [] h = "getUserHighScore" ->
         <<Connect, Run("selectScore", "throw", 0), Run("selectScore", "throw", 0), Send>>

TaskHandlers == {"createTask", "getTasks", "updateTask", "deleteTask", "clearTasks"}

PlanHandlers == {"getPlan", "generatePlan"}

AIHandlers ==
  {"extractTasksFromVoice", "generateAITasks", "alignTasksWithAIPlan", "dictateKanbanTasks",
   "askKanbanAI", "getPerformanceInsights", "getWeather"}

PreferenceHandlers == {"savePreferences", "getPreferences"}

GameHandlers == {"saveGameHighScore", "getGameHighScore", "getUserHighScore"}

Program(h) ==
  CASE h \in TaskHandlers -> TaskPrograms(h)
    [] h \in PlanHandlers -> PlanPrograms(h)
    [] h \in AIHandlers -> AIPrograms(h)
    [] h \in PreferenceHandlers -> PreferencePrograms(h)
    [] h \in GameHandlers -> GamePrograms(h)

\* finally { if (sql) { try { await sql.end() } catch { } } }: clearTasks alone awaits
\* sql.end() outside a try
EndIsGuarded(h) == h # "clearTasks"

ReturnSkipsFinally(inTry) == "resolved"

\* where a `return` leads: to the finally block when it is inside the try
AfterReturn(inTry) == IF inTry THEN "finally" ELSE "resolved"

OnParseFailureGiveUp(h) == "empty"

\* the catch block of the primary extraction: a repair through callOptimalAI, or
\* generatedTasks = [] in alignTasksWithAIPlan
OnParseFailure(h) == IF h = "alignTasksWithAIPlan" THEN "empty" ELSE "repair"

\* callOptimalAI calls a request may need
CallsNeeded(h) ==
  Cardinality({ k \in DOMAIN Program(h) : Program(h)[k].op = "ai" })
    + Cardinality({ k \in DOMAIN Program(h) :
                      Program(h)[k].op = "parse" /\ OnParseFailure(h) = "repair" })

\* if (!aiResponse) throw new Error('No response from AI ...')
ThrowsOnEmptyReply(h) ==
  h \in {"extractTasksFromVoice", "generateAITasks", "alignTasksWithAIPlan"}

(***************************************************************************)
(* Requests: the handler, the authenticated user, req.params.id and        *)
(* req.body (a task object, a transcript or question, or the flags of the  *)
(* handlers whose fields are not modelled one by one)                      *)
(***************************************************************************)
Req(h, user, id, body) == [handler |-> h, user |-> user, id |-> id, body |-> body]

NoRequest == Req("none", "nobody", Undef, Undef)

TTranscript == <<"c","a","l","l"," ","m","o","m"," ","a","t"," ","n","i","n","e">>

BodyNewTask == Obj(Undef, Undef, Str(TCallMomPadded), Num(15), Word("medium"), Undef, Str(Time0930))

BodyBlankTitle == Obj(Undef, Undef, Str(TBlank), Num(15), Word("medium"), Undef, Undef)

BodyBadTime == Obj(Undef, Undef, Str(TCallMom), Num(15), Word("medium"), Word("todo"), Str(TBadTime))

BodyDone == Obj(Undef, Undef, Undef, Undef, Undef, Word("done"), Undef)

BodyRetitle == Obj(Undef, Undef, Str(TCallMomPadded), Num(20), Undef, Undef, Str(Time0930))

Flags(name, value) == [k |-> "flags", name |-> name, value |-> value]

TaskIds == {Str(IdWorkout), Str(IdRent), Str(IdUnknown), Str(IdNotAUuid)}

TaskRequests ==
  { Req("createTask", "alice", Undef, b) : b \in {BodyNewTask, BodyBlankTitle, BodyBadTime} }
    \cup { Req("updateTask", u, id, b) :
             u \in Users, id \in TaskIds, b \in {BodyDone, BodyRetitle, BodyBadTime} }
    \cup { Req("deleteTask", u, id, Undef) : u \in Users, id \in TaskIds }
    \cup { Req("clearTasks", u, Undef, Flags("keepIncomplete", keep)) :
             u \in Users, keep \in BOOLEAN }

OtherRequests ==
  { Req(h, "alice", Undef, Undef) :
      h \in {"getTasks", "getPlan", "generatePlan", "generateAITasks", "alignTasksWithAIPlan",
             "dictateKanbanTasks", "getPerformanceInsights", "getWeather", "getPreferences",
             "getGameHighScore", "getUserHighScore"} }
    \cup { Req(h, "alice", Undef, b) :
             h \in {"extractTasksFromVoice", "askKanbanAI"}, b \in {Str(TTranscript), Str(TBlank)} }
    \cup { Req(h, "alice", Undef, Flags("complete", ok)) :
             h \in {"savePreferences", "saveGameHighScore"}, ok \in BOOLEAN }

\* the requests of a run
Requests(scenario) ==
  IF scenario = "fields"
    THEN { Req("createTask", "alice", Undef, b) : b \in {BodyNewTask, BodyBadTime} }
           \cup { Req("updateTask", "alice", Str(IdWorkout), b) :
                    b \in {BodyBlankTitle, BodyBadTime} }
  ELSE IF scenario = "race"
    THEN { Req(h, "alice", id, IF h = "updateTask" THEN BodyDone ELSE Undef) :
             h \in {"updateTask", "deleteTask"}, id \in {Str(IdWorkout), Str(IdRent)} }
  ELSE IF scenario = "isolation"
    THEN { r \in TaskRequests :
             /\ r.handler \in {"updateTask", "deleteTask", "clearTasks"}
             /\ r.id \in {Undef, Str(IdWorkout), Str(IdRent)}
             /\ r.body \notin {BodyBadTime, BodyDone} }
    ELSE TaskRequests \cup OtherRequests

\* /^([0-1]?[0-9]|2[0-3]):[0-5][0-9]$/.test(text)
IsHHMM(text) ==
  LET digit(c) == c \in Range(DigitChars)
      minutes(p) == text[p] = ":" /\ text[p + 1] \in {"0","1","2","3","4","5"} /\ digit(text[p + 2])
  IN  \/ Len(text) = 4 /\ digit(text[1]) /\ minutes(2)
      \/ /\ Len(text) = 5
         /\ \/ text[1] \in {"0", "1"} /\ digit(text[2])
            \/ text[1] = "2" /\ text[2] \in {"0", "1", "2", "3"}
         /\ minutes(3)

\* scheduledTime && !pattern.test(scheduledTime)
BadTime(body) ==
  LET t == Field(body, "scheduledTime")
  IN  Truthy(t) /\ ~(IsString(t) /\ IsHHMM(TextOf(t)))

KanbanStatus == {"backlog", "todo", "doing", "done"}

\* the condition of the handler's `return res.status(400)`
Invalid(r) ==
  CASE r.handler = "createTask" ->
         \/ InvalidTitle(r.body)
         \/ InvalidDuration(r.body)
         \/ ~Truthy(Field(r.body, "importance")) \/ ~IsString(Field(r.body, "importance"))
         \/ /\ Truthy(Field(r.body, "status"))
            /\ ~(Field(r.body, "status").k = "word" /\ Field(r.body, "status").w \in KanbanStatus)
         \/ BadTime(r.body)
    [] r.handler = "updateTask" -> ~Truthy(r.id) \/ BadTime(r.body)
    [] r.handler = "deleteTask" -> ~Truthy(r.id)
    [] r.handler \in {"extractTasksFromVoice", "askKanbanAI"} ->
         ~Truthy(r.body) \/ ~IsString(r.body) \/ trim(TextOf(r.body)) = <<>>
    [] r.handler \in {"savePreferences", "saveGameHighScore"} -> ~r.body.value
    [] OTHER -> FALSE

(***************************************************************************)
(* What storage answers to a handler's query                               *)
(***************************************************************************)
\* undefined parameters are sent as NULL
Param(v) == IF v.k = "undef" THEN Null ELSE v

\* title?.trim()
TrimmedTitle(body) ==
  LET t == Field(body, "title")
  IN  IF t.k = "str" THEN Str(trim(t.s)) ELSE Param(t)

\* updateTask lines 145-155: every column is COALESCE($n, column)
RestUpdatedRow(row, body) ==
  [row EXCEPT !.title = Coalesce(TrimmedTitle(body), row.title),
              !.duration_minutes = Coalesce(Param(Field(body, "duration")), row.duration_minutes),
              !.importance = Coalesce(Param(Field(body, "importance")), row.importance),
              !.status = Coalesce(Param(Field(body, "status")), row.status),
              !.scheduled_time = Coalesce(Param(Field(body, "scheduledTime")), row.scheduled_time)]

\* createTask lines 55-59
RestInsertedRow(r, id) ==
  Row(id, r.user, TrimmedTitle(r.body), Field(r.body, "duration"), Field(r.body, "importance"),
      OrElse(Field(r.body, "status"), Word("todo")), OrElse(Field(r.body, "scheduledTime"), Null))

PlanRow(user, day, plan) == [user_id |-> user, plan_date |-> day, plan_json |-> plan]

\* WHERE user_id = $1 AND plan_date = CURRENT_DATE
PlansOf(stored, user, day) == { p \in stored : p.user_id = user /\ p.plan_date = day }

InsertPlanOnly(stored, user, day, plan) == stored \cup { PlanRow(user, day, plan) }

\* INSERT INTO plans ... ON CONFLICT (user_id, plan_date) DO UPDATE SET plan_json = ...
Upsert(stored, user, day, plan) ==
  (stored \ PlansOf(stored, user, day)) \cup { PlanRow(user, day, plan) }

Answer(rows, store, n, stored) == [rows |-> rows, store |-> store, nextId |-> n, plans |-> stored]

\* the possible answers to query q of request r: the rows found or affected and the
\* tables afterwards; none when the id is no uuid (the query fails).  The tables of
\* preferences, users and scores are not modelled: such a query finds a row or none.
Answers(q, r, store, n, stored, plan) ==
  LET mine == { x \in store : x.user_id = r.user }
      hit == IF r.id.k = "str" THEN Hit(store, r.id.s, r.user) ELSE {}
      same == IF r.id.k = "str" THEN { x \in store : x.id = r.id.s } ELSE {}
      cleared == IF r.body.k = "flags" /\ r.body.value
                   THEN { x \in mine : x.status = Word("done") } ELSE mine
  IN  CASE q \in {"selectOwned", "deleteOwned", "updateById"} /\ ~isValidUUID(r.id) -> {}
        [] q = "selectOwned" -> { Answer(Cardinality(hit), store, n, stored) }
        [] q = "deleteOwned" -> { Answer(Cardinality(hit), store \ hit, n, stored) }
        [] q = "updateById" ->
             { Answer(Cardinality(same),
                      (store \ same) \cup { RestUpdatedRow(x, r.body) : x \in same }, n, stored) }
        [] q = "clear" -> { Answer(Cardinality(cleared), store \ cleared, n, stored) }
        [] q = "insertTask" ->
             { Answer(1, store \cup { RestInsertedRow(r, FreshId(n)) }, n + 1, stored) }
        [] q = "selectTasks" -> { Answer(Cardinality(mine), store, n, stored) }
        [] q = "selectPrefsAndTasks" ->
             { Answer(k, store, n, stored) : k \in {0, IF mine = {} THEN 0 ELSE 1} }
        [] q = "selectPlan" ->
             { Answer(Cardinality(PlansOf(stored, r.user, today)), store, n, stored) }
        [] q = "upsertPlan" ->
             { Answer(1, store, n, Upsert(stored, r.user, today, plan)) }
        [] OTHER -> { Answer(k, store, n, stored) : k \in {0, 1} }

(***************************************************************************)
(* The steps of a request                                                  *)
(***************************************************************************)
NoResponse == [k |-> "none"]

Sent(status) == [k |-> "sent", status |-> status]

Responded(status) == [e |-> "respond", status |-> status]

\* the step the request is at
Cur == Program(req.handler)[step]

\* on to the next statement
Continue(events) ==
  /\ step' = step + 1
  /\ stage' = "run"
  /\ response' = response
  /\ journal' = journal \o events

\* return res.status(status).json(...)
Return(status, next, events) ==
  /\ step' = step
  /\ stage' = next
  /\ response' = Sent(status)
  /\ journal' = journal \o events \o <<Responded(status)>>

\* an exception reaches the catch block: res.status(500).json(...)
Caught(events) == Return(500, "finally", events)

\* the handler awaits callOptimalAI
Await(next, events) ==
  /\ step' = step
  /\ stage' = next
  /\ response' = response
  /\ journal' = journal \o events

EmptyList == Parsed(<<"[", "]">>)

\* the content of the completion a backend returned
ReplyTexts ==
  { <<>>,
    <<"H","e","r","e"," ","y","o","u"," ","g","o",":"," ","[","{","\"","t","i","t","l","e","\"",":","\"","P","l","a","n"," ","d","a","y","\"",",","\"","d","u","r","a","t","i","o","n","\"",":","3","0","}","]">>,
    <<"{","\"","s","u","m","m","a","r","y","\"",":","\"","F","o","c","u","s","\"","}">>,
    <<"[","{","\"","t","i","t","l","e","\"",":","\"","x","\"",",","}","]">> }

HandlerIdle ==
  /\ req = NoRequest
  /\ step = 0
  /\ stage = "idle"
  /\ sql = "null"
  /\ response = NoResponse
  /\ journal = <<>>
  /\ plans = {}
  /\ requestsDone = 0

\* Express routes a request to its handler
Receive ==
  /\ stage \in {"idle", "resolved", "rejected"}
  /\ requestsDone < MaxRequests
  /\ \E r \in Requests(proposals) :
       /\ callsMade + CallsNeeded(r.handler) <= MaxCalls
       /\ req' = r
  /\ step' = 1
  /\ stage' = "run"
  /\ sql' = "null"
  /\ response' = NoResponse
  /\ journal' = <<>>
  /\ requestsDone' = requestsDone + 1
  /\ aiResponse' = <<>> /\ shape' = "array" /\ parsed' = [k |-> "none"]
  /\ UNCHANGED <<tasks, nextId, plans, batchVars, routerVars, textVars, workerVars, voiceVars>>

\* a validation of the request
Validate ==
  /\ stage = "run" /\ Cur.op = "check"
  /\ IF Invalid(req) THEN Return(400, AfterReturn(Cur.inTry), <<>>) ELSE Continue(<<>>)
  /\ UNCHANGED <<req, sql, requestsDone, tasks, nextId, plans>>
  /\ UNCHANGED <<batchVars, routerVars, textVars, extractVars, workerVars, voiceVars>>

\* sql = await getDbConnection(): when connect() rejects, sql stays null
Acquire ==
  /\ stage = "run" /\ Cur.op = "connect"
  /\ \E ok \in BOOLEAN :
       IF ok THEN sql' = "open" /\ Continue(<<[e |-> "connect", ok |-> TRUE]>>)
       ELSE sql' = sql /\ Caught(<<[e |-> "connect", ok |-> FALSE]>>)
  /\ UNCHANGED <<req, requestsDone, tasks, nextId, plans>>
  /\ UNCHANGED <<batchVars, routerVars, textVars, extractVars, workerVars, voiceVars>>

\* await sql.query(...)
RunQuery ==
  /\ stage = "run" /\ Cur.op = "query"
  /\ \/ /\ IF Cur.onError = "swallow"
             THEN Continue(<<[e |-> "query", q |-> Cur.q, ok |-> FALSE]>>)
             ELSE Caught(<<[e |-> "query", q |-> Cur.q, ok |-> FALSE]>>)
        /\ UNCHANGED <<tasks, nextId, plans>>
     \/ \E a \in Answers(Cur.q, req, tasks, nextId, plans, parsed) :
          /\ tasks' = a.store /\ nextId' = a.nextId /\ plans' = a.plans
          /\ IF a.rows = 0 /\ Cur.onEmpty # 0
               THEN Return(Cur.onEmpty, "finally", <<[e |-> "query", q |-> Cur.q, ok |-> TRUE]>>)
               ELSE Continue(<<[e |-> "query", q |-> Cur.q, ok |-> TRUE]>>)
  /\ UNCHANGED <<req, sql, requestsDone>>
  /\ UNCHANGED <<batchVars, routerVars, textVars, extractVars, workerVars, voiceVars>>

\* await fetch(...) of context data
FetchContext ==
  /\ stage = "run" /\ Cur.op = "fetch"
  /\ \E ok \in BOOLEAN :
       IF ok \/ Cur.onError = "swallow" THEN Continue(<<>>) ELSE Caught(<<>>)
  /\ UNCHANGED <<req, sql, requestsDone, tasks, nextId, plans>>
  /\ UNCHANGED <<batchVars, routerVars, textVars, extractVars, workerVars, voiceVars>>

\* await callOptimalAI(messages, type, options): the call starts
AskAI ==
  /\ stage = "run" /\ Cur.op = "ai"
  /\ rpc = "idle"
  /\ BeginCall(Cur.type)
  /\ Await("await", <<[e |-> "ai", type |-> Cur.type]>>)
  /\ UNCHANGED <<req, sql, requestsDone, tasks, nextId, plans>>
  /\ UNCHANGED <<batchVars, textVars, extractVars, workerVars, voiceVars>>

\* callOptimalAI returns or throws; the handler reads the content of the reply
AIAnswers ==
  /\ stage = "await"
  /\ rpc \in {"returned", "threw"}
  /\ EndCall
  /\ IF rpc = "threw" THEN Caught(<<>>) /\ aiResponse' = aiResponse
     ELSE \E text \in ReplyTexts :
            /\ aiResponse' = text
            /\ IF text = <<>> /\ ThrowsOnEmptyReply(req.handler)
                 THEN Caught(<<>>) ELSE Continue(<<>>)
  /\ UNCHANGED <<req, sql, requestsDone, tasks, nextId, plans, shape, parsed>>
  /\ UNCHANGED <<batchVars, textVars, workerVars, voiceVars>>

\* the primary extraction and, when it fails, its catch block
ParseReply ==
  /\ stage = "run" /\ Cur.op = "parse"
  /\ LET got == extract(Cur.shape, aiResponse)
         tried == [e |-> "extract", ok |-> got # ParseFailed]
     IN  /\ shape' = Cur.shape
         /\ IF got # ParseFailed
              THEN parsed' = got /\ Continue(<<tried>>) /\ UNCHANGED routerVars
              ELSE IF OnParseFailure(req.handler) = "repair"
                THEN /\ parsed' = got
                     /\ BeginCall("json-parsing")
                     /\ Await("repairing", <<tried, [e |-> "ai", type |-> "json-parsing"]>>)
                ELSE parsed' = EmptyList /\ Continue(<<tried>>) /\ UNCHANGED routerVars
  /\ UNCHANGED <<req, sql, requestsDone, tasks, nextId, plans, aiResponse>>
  /\ UNCHANGED <<batchVars, textVars, workerVars, voiceVars>>

\* the repair call returns or throws; the extraction runs again on the repaired text
RepairAnswers ==
  /\ stage = "repairing"
  /\ rpc \in {"returned", "threw"}
  /\ EndCall
  /\ IF rpc = "threw" THEN Caught(<<>>) /\ parsed' = parsed
     ELSE \E text \in ReplyTexts :
            LET got == extract(shape, text)
                tried == [e |-> "extract", ok |-> got # ParseFailed]
            IN  /\ parsed' = got
                /\ IF got # ParseFailed THEN Continue(<<tried>>) ELSE Caught(<<tried>>)
  /\ UNCHANGED <<req, sql, requestsDone, tasks, nextId, plans, aiResponse, shape>>
  /\ UNCHANGED <<batchVars, textVars, workerVars, voiceVars>>

\* await alignTasksWithPlan(sql, userId, generatedTasks, ...) or the insert loop; what
\* it does to the tasks table is the subject of the alignment steps above
ApplyBatch ==
  /\ stage = "run" /\ Cur.op = "apply"
  /\ \E ok \in BOOLEAN :
       IF ok THEN Continue(<<[e |-> "apply", batch |-> parsed, ok |-> TRUE]>>)
       ELSE Caught(<<[e |-> "apply", batch |-> parsed, ok |-> FALSE]>>)
  /\ UNCHANGED <<req, sql, requestsDone, tasks, nextId, plans>>
  /\ UNCHANGED <<batchVars, routerVars, textVars, extractVars, workerVars, voiceVars>>

\* res.json(...) at the end of the try block
Reply ==
  /\ stage = "run" /\ Cur.op = "respond"
  /\ Return(200, "finally", <<>>)
  /\ UNCHANGED <<req, sql, requestsDone, tasks, nextId, plans>>
  /\ UNCHANGED <<batchVars, routerVars, textVars, extractVars, workerVars, voiceVars>>

\* finally { if (sql) { await sql.end() } }: a rejection of end() is swallowed where
\* the call is guarded and rejects the handler's promise where it is not
Finally ==
  /\ stage = "finally"
  /\ IF sql = "open"
       THEN \E ok \in BOOLEAN :
              /\ sql' = "ended"
              /\ journal' = Append(journal, [e |-> "end", ok |-> ok])
              /\ stage' = IF ok \/ EndIsGuarded(req.handler) THEN "resolved" ELSE "rejected"
       ELSE sql' = sql /\ journal' = journal /\ stage' = "resolved"
  /\ UNCHANGED <<req, step, response, requestsDone, tasks, nextId, plans>>
  /\ UNCHANGED <<batchVars, routerVars, textVars, extractVars, workerVars, voiceVars>>

(***************************************************************************)
(* generateAITasks without a plan: the insert loop (aiController.ts        *)
(* lines 346-359)                                                          *)
(***************************************************************************)
\* the parameters of the INSERT, line 353: the proposed fields as they are
DirectlyInsertedRow(task, user, id) ==
  Row(id, user, Param(Field(task, "title")), Param(Field(task, "duration")),
      Param(Field(task, "importance")), Word("todo"),
      OrElse(Field(task, "scheduledTime"), Null))

\* shouldAlignWithSchedule && currentPlan is false: the else branch of line 343
StartInsert ==
  /\ pc = "fetched"
  /\ \E batch \in Batches(Pool(proposals), MaxOps - opsUsed) :
       /\ generatedTasks' = batch
       /\ opsUsed' = opsUsed + Len(batch)
       /\ pc' = IF batch = <<>> THEN "returned" ELSE "insert"
       /\ i' = IF batch = <<>> THEN 0 ELSE 1
  /\ results' = EmptyResults
  /\ trace' = <<>>
  /\ UNCHANGED <<tasks, nextId, proposals, userId, existingTasks>>
  /\ UNCHANGED auxVars

\* one iteration of the loop: reading a field of null throws, and the catch of
\* line 356 logs a failed INSERT
InsertStep ==
  /\ pc = "insert"
  /\ \E ok \in BOOLEAN :
       LET task == generatedTasks[i]
           id == FreshId(nextId)
           stored == ok /\ ~IsNullElement(task)
           q == IF IsNullElement(task) THEN NoQuery ELSE Query("INSERT", id, userId, ok, IF ok THEN 1 ELSE 0)
       IN  /\ tasks' = IF stored THEN tasks \cup {DirectlyInsertedRow(task, userId, id)} ELSE tasks
           /\ nextId' = IF stored THEN nextId + 1 ELSE nextId
           /\ results' = IF stored
                            THEN [results EXCEPT !.insertedTasks = Append(@, task)]
                            ELSE results
           /\ trace' = Append(trace, [idx |-> i, pass |-> "insert", q |-> q])
  /\ pc' = IF i < Len(generatedTasks) THEN "insert" ELSE "returned"
  /\ i' = IF i < Len(generatedTasks) THEN i + 1 ELSE 0
  /\ UNCHANGED <<proposals, opsUsed, userId, existingTasks, generatedTasks>>
  /\ UNCHANGED auxVars

(***************************************************************************)
(* Requests served at the same time: generatePlan (planController.ts       *)
(* lines 41-220) and saveGameHighScore (part_002 lines 7-60).  A worker is *)
(* one call of the handler with its local variables; a step is one await.  *)
(***************************************************************************)
Workers == 1 .. MaxWorkers

\* what the requests served concurrently leave alone (they write plans and scores)
notWorkerVars ==
  <<engineVars, routerVars, textVars, extractVars, req, step, stage, sql, response,
    journal, requestsDone, voiceVars>>

Worker(h, user, arg, at, conn, seen, saved, status) ==
  [handler |-> h, user |-> user, arg |-> arg, pc |-> at, sql |-> conn, seen |-> seen,
   saved |-> saved, status |-> status]

IdleWorker == Worker("none", "nobody", Undef, "idle", "null", {}, FALSE, 0)

\* the plan objects the extraction may yield
PlanContents == { Str(<<"a">>), Str(<<"b">>) }

ScoreRow(row, user, score) == [row |-> row, user_id |-> user, score |-> score]

SeedScores == { ScoreRow(1, "alice", 30) }

ScoresOf(table, user) == { r \in table : r.user_id = user }

\* req.body.score
SubmittedScores == { Num(40), Num(50), Num(-1), Undef }

\* typeof score !== 'number' || isNaN(score) || score < 0
InvalidScore(v) == v.k # "num" \/ v.n < 0

\* the requests that may arrive in a run
Arrivals(scenario) ==
  CASE scenario = "plans" ->
         { Worker("generatePlan", u, Undef, "connect", "null", {}, FALSE, 0) : u \in Users }
    [] scenario = "scores" ->
         { Worker("saveGameHighScore", u, v, "validate", "null", {}, FALSE, 0) :
             u \in Users, v \in SubmittedScores }
    [] OTHER -> {}

\* the game_scores table at the start of a run
ScoreTables(scenario) == IF scenario = "scores" THEN { {}, SeedScores } ELSE { {} }

WorkersIdle ==
  /\ today = 1
  /\ workers = [w \in Workers |-> IdleWorker]

\* res.status(status).json(...): the handler goes on to its finally block
Answered(w, status) == [workers[w] EXCEPT !.status = status, !.pc = "finally"]

\* Express routes a request to a handler
Arrive ==
  /\ \E w \in Workers, r \in Arrivals(proposals) :
       /\ workers[w].pc = "idle"
       /\ workers' = [workers EXCEPT ![w] = r]
  /\ UNCHANGED <<today, scores, plans, notWorkerVars>>

\* saveGameHighScore lines 12-16
ScoreValidate ==
  /\ \E w \in Workers :
       /\ workers[w].pc = "validate"
       /\ workers' = [workers EXCEPT ![w] =
                        IF InvalidScore(@.arg) THEN Answered(w, 400)
                        ELSE [@ EXCEPT !.pc = "connect"]]
  /\ UNCHANGED <<today, scores, plans, notWorkerVars>>

\* sql = await getDbConnection()
WorkerConnect ==
  /\ \E w \in Workers, ok \in BOOLEAN :
       /\ workers[w].pc = "connect"
       /\ workers' = [workers EXCEPT ![w] =
                        IF ok THEN [@ EXCEPT !.sql = "open", !.pc = "read"]
                        ELSE Answered(w, 500)]
  /\ UNCHANGED <<today, scores, plans, notWorkerVars>>

\* generatePlan lines 51-84: the user row (errors swallowed), then preferences and
\* today's tasks; 400 when either is missing
PlanRead ==
  /\ \E w \in Workers, found \in {"both", "missing", "error"} :
       /\ workers[w].handler = "generatePlan" /\ workers[w].pc = "read"
       /\ workers' = [workers EXCEPT ![w] =
                        CASE found = "both" -> [@ EXCEPT !.pc = "ask"]
                          [] found = "missing" -> Answered(w, 400)
                          [] OTHER -> Answered(w, 500)]
  /\ UNCHANGED <<today, scores, plans, notWorkerVars>>

\* generatePlan lines 86-186: context, the completion, extraction and repair yield
\* a plan, or the handler returns 500
PlanAsk ==
  /\ \E w \in Workers :
       /\ workers[w].handler = "generatePlan" /\ workers[w].pc = "ask"
       /\ \/ \E plan \in PlanContents :
               workers' = [workers EXCEPT ![w] = [@ EXCEPT !.arg = plan, !.pc = "write"]]
          \/ workers' = [workers EXCEPT ![w] = Answered(w, 500)]
  /\ UNCHANGED <<today, scores, plans, notWorkerVars>>

\* generatePlan lines 188-207: the upsert, whose error is logged and swallowed, then
\* res.json({ plan, ... })
PlanWrite ==
  /\ \E w \in Workers, ok \in BOOLEAN :
       /\ workers[w].handler = "generatePlan" /\ workers[w].pc = "write"
       /\ plans' = IF ok THEN Upsert(plans, workers[w].user, today, workers[w].arg) ELSE plans
       /\ workers' = [workers EXCEPT ![w] = [Answered(w, 200) EXCEPT !.saved = ok]]
  /\ UNCHANGED <<today, scores, notWorkerVars>>

\* saveGameHighScore lines 21-24: SELECT score FROM game_scores WHERE user_id = $1
ScoreRead ==
  /\ \E w \in Workers, ok \in BOOLEAN :
       /\ workers[w].handler = "saveGameHighScore" /\ workers[w].pc = "read"
       /\ workers' = [workers EXCEPT ![w] =
                        IF ok THEN [@ EXCEPT !.seen = ScoresOf(scores, workers[w].user), !.pc = "write"]
                        ELSE Answered(w, 500)]
  /\ UNCHANGED <<today, scores, plans, notWorkerVars>>

\* UPDATE game_scores SET score = $1 WHERE user_id = $2
UpdatedScores(table, user, score) ==
  { IF r.user_id = user THEN [r EXCEPT !.score = score] ELSE r : r \in table }

\* saveGameHighScore lines 26-46: UPDATE when the submitted score beats the first row
\* read (the SELECT has no ORDER BY), INSERT when no row was read
ScoreWrite ==
  /\ \E w \in Workers, ok \in BOOLEAN :
       LET me == workers[w]
           done == IF ok THEN Answered(w, 200) ELSE Answered(w, 500)
       IN  /\ me.handler = "saveGameHighScore" /\ me.pc = "write"
           /\ IF me.seen = {}
                THEN /\ scores' = IF ok
                                    THEN scores \cup
                                           { ScoreRow(Cardinality(scores) + 1, me.user, me.arg.n) }
                                    ELSE scores
                     /\ workers' = [workers EXCEPT ![w] = done]
                ELSE \E first \in me.seen :
                       IF me.arg.n > first.score
                         THEN /\ scores' = IF ok THEN UpdatedScores(scores, me.user, me.arg.n)
                                           ELSE scores
                              /\ workers' = [workers EXCEPT ![w] = done]
                         ELSE /\ scores' = scores
                              /\ workers' = [workers EXCEPT ![w] = Answered(w, 200)]
  /\ UNCHANGED <<today, plans, notWorkerVars>>

\* finally { if (sql) { try { await sql.end() } catch { } } }
WorkerFinally ==
  /\ \E w \in Workers :
       /\ workers[w].pc = "finally"
       /\ workers' = [workers EXCEPT ![w] =
                        [@ EXCEPT !.pc = "done",
                                  !.sql = IF @ = "open" THEN "ended" ELSE @]]
  /\ UNCHANGED <<today, scores, plans, notWorkerVars>>

\* CURRENT_DATE moves to the next day
Midnight ==
  /\ today < MaxDays
  /\ today' = today + 1
  /\ UNCHANGED <<scores, workers, plans, notWorkerVars>>

(***************************************************************************)
(* Specifications                                                          *)
(***************************************************************************)
\* a run over the tasks table `store`
(***************************************************************************)
(* utils/ai.ts parseTimeString and the scheduledTime normalisation of      *)
(* extractTasksFromVoice                                                   *)
(***************************************************************************)
IsDigit(c) == c \in Range(DigitChars)

DigitValue(c) == (CHOOSE k \in DOMAIN DigitChars : DigitChars[k] = c) - 1

\* parseInt of a text of digits
RECURSIVE parseInt(_)
parseInt(s) ==
  IF s = <<>> THEN 0
  ELSE 10 * parseInt(SubSeq(s, 1, Len(s) - 1)) + DigitValue(s[Len(s)])

\* Number.prototype.toString of a natural number
RECURSIVE NumberText(_)
NumberText(n) ==
  IF n < 10 THEN <<DigitChars[n + 1]>>
  ELSE NumberText(n \div 10) \o <<DigitChars[(n % 10) + 1]>>

\* n.toString().padStart(2, '0')
padStart2(n) == IF n < 10 THEN <<"0">> \o NumberText(n) ELSE NumberText(n)

\* the longest run of digits a text starts with
RECURSIVE LeadingDigits(_)
LeadingDigits(s) ==
  IF s # <<>> /\ IsDigit(Head(s)) THEN <<Head(s)>> \o LeadingDigits(Tail(s)) ELSE <<>>

DropFirst(s, n) == SubSeq(s, n + 1, Len(s))

NoTimeMatch == [m |-> FALSE]

\* /^(\d{1,2})(?::(\d{2}))?\s*(am|pm)$/i.exec(cleaned)
MatchTimeWithAmPm(s) ==
  LET h == LeadingDigits(s)
      rest == DropFirst(s, Len(h))
      colon == rest # <<>> /\ Head(rest) = ":"
      mins == IF colon THEN LeadingDigits(Tail(rest)) ELSE <<>>
      after == IF colon THEN DropFirst(rest, 1 + Len(mins)) ELSE rest
      suffix == toLowerCase(trimStart(after))
  IN  IF /\ Len(h) \in {1, 2}
         /\ colon => Len(mins) = 2
         /\ suffix \in { <<"a","m">>, <<"p","m">> }
        THEN [m |-> TRUE, g1 |-> h, g2 |-> mins, g3 |-> suffix]
        ELSE NoTimeMatch

\* /^(\d{1,2}):(\d{2})$/.exec(cleaned)
MatchTime24(s) ==
  LET h == LeadingDigits(s)
      rest == DropFirst(s, Len(h))
  IN  IF /\ Len(h) \in {1, 2}
         /\ Len(rest) = 3 /\ rest[1] = ":" /\ IsDigit(rest[2]) /\ IsDigit(rest[3])
        THEN [m |-> TRUE, g1 |-> h, g2 |-> SubSeq(rest, 2, 3)]
        ELSE NoTimeMatch

\* /^(\d{1,2})$/.exec(cleaned)
MatchHourOnly(s) ==
  IF Len(s) \in {1, 2} /\ LeadingDigits(s) = s THEN [m |-> TRUE, g1 |-> s] ELSE NoTimeMatch

\* hours after "if (ampm === 'pm' && hours !== 12) hours += 12;
\* if (ampm === 'am' && hours === 12) hours = 0"
AmPmHours(hours, ampm) ==
  LET shifted == IF ampm = <<"p","m">> /\ hours # 12 THEN hours + 12 ELSE hours
  IN  IF ampm = <<"a","m">> /\ shifted = 12 THEN 0 ELSE shifted

parseTimeString(timeStr) ==
  LET text == trim(toLowerCase(timeStr))
      timeWithAmPm == MatchTimeWithAmPm(text)
      time24 == MatchTime24(text)
      hourOnly == MatchHourOnly(text)
  IN  IF timeWithAmPm.m THEN
        LET hours == AmPmHours(parseInt(timeWithAmPm.g1), timeWithAmPm.g3)
            minutes == IF timeWithAmPm.g2 # <<>> THEN parseInt(timeWithAmPm.g2) ELSE 0
        IN  Str(padStart2(hours) \o <<":">> \o padStart2(minutes))
      ELSE IF time24.m /\ parseInt(time24.g1) <= 23 /\ parseInt(time24.g2) <= 59 THEN
        Str(padStart2(parseInt(time24.g1)) \o <<":">> \o padStart2(parseInt(time24.g2)))
      ELSE IF hourOnly.m /\ parseInt(hourOnly.g1) <= 23 THEN
        Str(padStart2(parseInt(hourOnly.g1)) \o <<":", "0", "0">>)
      ELSE Null

\* task.scheduledTime.toString()
TimeText(v) == IF v.k = "num" THEN NumberText(v.n) ELSE TextOf(v)

\* what the AI may give as scheduledTime of an extracted task
ExtractedTimes ==
  { Null, Num(0), Num(15), Num(930),
    Str(<<"2"," ","P","M">>), Str(<<"3",":","3","0"," ","a","m">>), Str(<<"1","2","a","m">>),
    Str(<<"1","2"," ","p","m">>), Str(<<"1","3"," ","p","m">>), Str(<<"3",":","7","5","p","m">>),
    Str(<<"1","4",":","3","0">>), Str(<<" ","9",":","1","5"," ">>), Str(<<"2","4",":","0","0">>),
    Str(<<"7",":","7","5">>), Str(<<"3">>), Str(<<"2","5">>), Str(<<"n","o","o","n">>),
    Str(<<"0","9",":","0","5">>), Str(<<"1","1",":","5","9"," ","P","M">>) }

\* the scheduledTime values of the tasks the filter kept, in order
VoiceInputs(scenario) ==
  IF scenario = "voice"
    THEN UNION { [1 .. n -> ExtractedTimes] : n \in 1 .. MaxTimes }
    ELSE { <<>> }

\* aiController.ts lines 114-130: the scheduledTime of a mapped task, with the value
\* parseTimeString returned when it was called
MappedTime(given) ==
  IF ~Truthy(given) THEN [given |-> given, parsedTime |-> Undef, scheduledTime |-> Null]
  ELSE LET timeStr == trim(TimeText(given))
       IN  IF IsHHMM(timeStr)
             THEN [given |-> given, parsedTime |-> Undef, scheduledTime |-> Str(timeStr)]
             ELSE LET parsedTime == parseTimeString(timeStr)
                  IN  [given |-> given, parsedTime |-> parsedTime,
                       scheduledTime |-> IF Truthy(parsedTime) THEN parsedTime ELSE Null]

\* .map((task) => ...): the next task of the filtered list is mapped
MapExtractedTask ==
  /\ extractedTimes # <<>>
  /\ validTasks' = Append(validTasks, MappedTime(Head(extractedTimes)))
  /\ extractedTimes' = Tail(extractedTimes)
  /\ UNCHANGED <<engineVars, routerVars, textVars, extractVars, handlerVars, workerVars>>

Start(store, pool) ==
  /\ tasks = store
  /\ nextId = 0
  /\ proposals = pool
  /\ opsUsed = 0
  /\ pc = "idle"
  /\ userId = "alice"
  /\ existingTasks = <<>>
  /\ generatedTasks = <<>>
  /\ i = 0
  /\ results = EmptyResults
  /\ trace = <<>>
  /\ modelPerformance = NoPerformance
  /\ callsMade = 0
  /\ RouterIdle
  /\ HandlerIdle
  /\ WorkersIdle
  /\ scores \in ScoreTables(pool)
  /\ extractedTimes \in VoiceInputs(pool)
  /\ validTasks = <<>>

InitWith(pool) ==
  /\ \E store \in InitialStores : Start(store, pool)
  /\ CleanerIdle
  /\ ExtractorIdle

Init == InitWith("mixed")

InitCreate == InitWith("create")

InitDuplicate == InitWith("duplicate")

InitDelete == InitWith("delete")

InitModify == InitWith("modify")

Next ==
  \/ ReadExisting
  \/ StartAlign
  \/ CreateStep
  \/ DeleteStep
  \/ ModifyStep
  \/ Respond

Spec == Init /\ [][Next]_vars

SpecCreate == InitCreate /\ [][Next]_vars

SpecDuplicate == InitDuplicate /\ [][Next]_vars

SpecDelete == InitDelete /\ [][Next]_vars

SpecModify == InitModify /\ [][Next]_vars

InitRouter == InitWith("router")

NextRouter ==
  \/ callOptimalAI
  \/ Request
  \/ Settle
  \/ CallDone

SpecRouter == InitRouter /\ [][NextRouter]_vars

InitSanitizer ==
  /\ Start(SeedRows, "sanitizer")
  /\ rawResponse \in RawResponses
  /\ cleaned = [k |-> "none"]
  /\ ExtractorIdle

NextSanitizer == CleanReply

SpecSanitizer == InitSanitizer /\ [][NextSanitizer]_vars

InitExtraction ==
  /\ Start(SeedRows, "extraction")
  /\ CleanerIdle
  /\ aiResponse \in AITexts
  /\ shape \in Shapes
  /\ parsed = [k |-> "none"]

NextExtraction == Extract

SpecExtraction == InitExtraction /\ [][NextExtraction]_vars

\* alignment batches and the task routes of both users, one call after another:
\* a batch starts when no request is in progress, a request when no batch is
InitIsolation ==
  /\ Start(SeedRows, "isolation")
  /\ CleanerIdle
  /\ ExtractorIdle

NextIsolation ==
  \/ stage \in {"idle", "resolved", "rejected"} /\ ReadExisting
  \/ StartAlign
  \/ CreateStep
  \/ DeleteStep
  \/ ModifyStep
  \/ Respond
  \/ pc = "idle" /\ Receive
  \/ Validate
  \/ Acquire
  \/ RunQuery
  \/ Reply
  \/ Finally

SpecIsolation == InitIsolation /\ [][NextIsolation]_vars

\* every way a task is written: the task routes, alignment batches and the insert
\* loop of generateAITasks, one call after another
InitFields ==
  /\ Start(SeedRows, "fields")
  /\ CleanerIdle
  /\ ExtractorIdle

NextFields ==
  \/ stage \in {"idle", "resolved", "rejected"} /\ ReadExisting
  \/ StartAlign
  \/ StartInsert
  \/ CreateStep
  \/ InsertStep
  \/ ModifyStep
  \/ Respond
  \/ pc = "idle" /\ Receive
  \/ Validate
  \/ Acquire
  \/ RunQuery
  \/ Reply
  \/ Finally

SpecFields == InitFields /\ [][NextFields]_vars

\* a task route of a user while an alignment batch of the same or another user
\* runs: the awaits of the two interleave
InitRace ==
  /\ Start(SeedRows, "race")
  /\ CleanerIdle
  /\ ExtractorIdle

NextRace ==
  \/ ReadExisting
  \/ StartAlign
  \/ DeleteStep
  \/ Respond
  \/ Receive
  \/ Validate
  \/ Acquire
  \/ RunQuery
  \/ Reply
  \/ Finally

SpecRace == InitRace /\ [][NextRace]_vars

\* generatePlan requests of both users, overlapping, over two days
InitPlans ==
  /\ Start(SeedRows, "plans")
  /\ CleanerIdle
  /\ ExtractorIdle

NextPlans ==
  \/ Arrive
  \/ WorkerConnect
  \/ PlanRead
  \/ PlanAsk
  \/ PlanWrite
  \/ WorkerFinally
  \/ Midnight

SpecPlans == InitPlans /\ [][NextPlans]_vars

\* saveGameHighScore requests, overlapping
InitScores ==
  /\ Start(SeedRows, "scores")
  /\ CleanerIdle
  /\ ExtractorIdle

NextScores ==
  \/ Arrive
  \/ ScoreValidate
  \/ WorkerConnect
  \/ ScoreRead
  \/ ScoreWrite
  \/ WorkerFinally

SpecScores == InitScores /\ [][NextScores]_vars

InitVoice ==
  /\ Start(SeedRows, "voice")
  /\ CleanerIdle
  /\ ExtractorIdle

NextVoice ==
  \/ MapExtractedTask

SpecVoice == InitVoice /\ [][NextVoice]_vars

InitHandlers ==
  /\ Start(SeedRows, "handlers")
  /\ CleanerIdle
  /\ ExtractorIdle

NextHandlers ==
  \/ Receive
  \/ Validate
  \/ Acquire
  \/ RunQuery
  \/ FetchContext
  \/ AskAI
  \/ Request
  \/ Settle
  \/ AIAnswers
  \/ ParseReply
  \/ RepairAnswers
  \/ ApplyBatch
  \/ Reply
  \/ Finally

SpecHandlers == InitHandlers /\ [][NextHandlers]_vars


(***************************************************************************)
(* Vocabulary of the properties                                            *)
(***************************************************************************)
Last(s) == s[Len(s)]

Passes == {"create", "delete", "modify"}

\* a step of the engine processes one operation
Processing(pass) == pc = pass /\ Len(trace') = Len(trace) + 1

\* the operation is of one of the three shapes the filters recognise
Recognised(e) == e.k # "null" /\ (IsAdd(e) \/ IsDelete(e) \/ IsModify(e))

Absent(v) == v.k \in {"undef", "null"}

AllSpaces(s) == \A k \in DOMAIN s : s[k] = " "

\* the operation carries a well-formed identity
WellFormedId(task) ==
  LET id == Field(task, "id") IN id.k = "str" /\ UuidPattern(id.s)

\* the operation carries an identity that fails the format check
MalformedId(task) ==
  LET id == Field(task, "id")
  IN  ~Absent(id) /\ Truthy(id) /\ ~(id.k = "str" /\ UuidPattern(id.s))

\* characters equal up to case
SameCharCI(a, b) == LowerChar(a) = LowerChar(b)

SameTextCI(a, b) ==
  Len(a) = Len(b) /\ \A k \in 1 .. Len(a) : SameCharCI(a[k], b[k])

\* the snapshot rows whose title equals the operation's title, case-insensitively
TitleMatches(task, existing) ==
  LET t == Field(task, "title")
  IN  { k \in 1 .. Len(existing) :
          /\ t.k = "str" /\ existing[k].title.k = "str"
          /\ SameTextCI(existing[k].title.s, t.s)
          /\ UuidPattern(existing[k].id) }

(***************************************************************************)
(* C1: alignTasksWithPlan never rejects: whatever the batch (null          *)
(* elements, primitives, fields of unexpected types) and whichever storage *)
(* queries fail, the call is either still processing an operation of the   *)
(* current pass or has returned an AlignmentResult with its four lists.    *)
(***************************************************************************)
C1_NeverThrows ==
  /\ pc \in {"idle", "fetched", "returned"} \cup Passes
  /\ pc \in Passes => i \in 1 .. Len(PassList(pc, generatedTasks))
  /\ DOMAIN results = {"insertedTasks", "modifiedTasks", "deletedTasks", "conflicts"}

\* a call returned although its batch holds a null element
C1_Witness ==
  /\ pc = "returned"
  /\ \E k \in 1 .. Len(generatedTasks) : IsNullElement(generatedTasks[k])
  /\ \E k \in 1 .. Len(generatedTasks) : ~IsNullElement(generatedTasks[k])

(***************************************************************************)
(* C2: a failure on one item never aborts the batch: when the call         *)
(* returns, a malformed (null) element or a failed storage query has left  *)
(* a conflict entry, and every other operation of a recognised shape has   *)
(* been processed.                                                         *)
(***************************************************************************)
C2_BatchNeverAborted ==
  pc = "returned" =>
    /\ \A k \in 1 .. Len(generatedTasks) :
         Recognised(generatedTasks[k]) => \E t \in 1 .. Len(trace) : trace[t].idx = k
    /\ (\E k \in 1 .. Len(generatedTasks) : IsNullElement(generatedTasks[k]))
         => results.conflicts # <<>>
    /\ (\E t \in 1 .. Len(trace) : trace[t].q.kind # "none" /\ ~trace[t].q.ok)
         => results.conflicts # <<>>

(***************************************************************************)
(* C3: a delete or modify operation whose identity fails the format check  *)
(* but whose title equals, case-insensitively, the title of a snapshot     *)
(* task with a well-formed identity issues its DELETE/UPDATE against that  *)
(* task's identity and the calling user, and the entry it adds to          *)
(* deletedTasks/modifiedTasks carries that identity.                       *)
(***************************************************************************)
C3_RescueStep ==
  \A pass \in {"delete", "modify"} :
    (/\ Processing(pass)
     /\ MalformedId(CurTask)
     /\ TitleMatches(CurTask, existingTasks) # {})
    =>
    LET q == Last(trace').q
        ids == { existingTasks[k].id : k \in TitleMatches(CurTask, existingTasks) }
        added == IF pass = "delete"
                   THEN SubSeq(results'.deletedTasks, Len(results.deletedTasks) + 1,
                               Len(results'.deletedTasks))
                   ELSE SubSeq(results'.modifiedTasks, Len(results.modifiedTasks) + 1,
                               Len(results'.modifiedTasks))
    IN  /\ q.kind = (IF pass = "delete" THEN "DELETE" ELSE "UPDATE")
        /\ q.id \in ids
        /\ q.user = userId
        /\ Len(added) <= 1
        /\ q.ok => Len(added) = 1
        /\ \A k \in 1 .. Len(added) :
             added[k].id = q.id /\ Str(added[k].id) # Field(CurTask, "id")

C3_RescueUsesExistingIdentity == [][C3_RescueStep]_vars

\* a batch rescued a delete and a modify by title
C3_Witness ==
  /\ \E t \in 1 .. Len(trace) :
       /\ trace[t].pass = "delete"
       /\ MalformedId(generatedTasks[trace[t].idx])
       /\ trace[t].q.kind = "DELETE" /\ trace[t].q.ok /\ trace[t].q.id = IdWorkout
  /\ \E t \in 1 .. Len(trace) :
       /\ trace[t].pass = "modify"
       /\ MalformedId(generatedTasks[trace[t].idx])
       /\ trace[t].q.kind = "UPDATE" /\ trace[t].q.ok /\ trace[t].q.id = IdWorkout
  /\ \E k \in 1 .. Len(results.deletedTasks) : results.deletedTasks[k].id = IdWorkout
  /\ \E k \in 1 .. Len(results.modifiedTasks) : results.modifiedTasks[k].id = IdWorkout

(***************************************************************************)
(* C4: a delete with a well-formed identity, once storage has answered     *)
(* its DELETE: if the calling user owns a row with that identity the row   *)
(* is removed and exactly one deletedTasks entry (and no conflict) is      *)
(* added; otherwise storage is unchanged, no deletedTasks entry is added   *)
(* and exactly one "No task found" conflict is.  In one batch, the second  *)
(* of two answered deletes of the same identity affects no row.            *)
(***************************************************************************)
C4_DeleteStep ==
  (/\ Processing("delete")
   /\ WellFormedId(CurTask)
   /\ Last(trace').q.ok)
  =>
  LET id == Field(CurTask, "id").s
      owned == { r \in tasks : r.id = id /\ r.user_id = userId }
  IN  IF owned # {}
        THEN /\ tasks' = tasks \ owned
             /\ Len(results'.deletedTasks) = Len(results.deletedTasks) + 1
             /\ Last(results'.deletedTasks).id = id
             /\ results'.conflicts = results.conflicts
        ELSE /\ tasks' = tasks
             /\ results'.deletedTasks = results.deletedTasks
             /\ Len(results'.conflicts) = Len(results.conflicts) + 1
             /\ Last(results'.conflicts).issue.msg = "No task found with ID"

C4_SecondDeleteFindsNothing ==
  \A a, b \in 1 .. Len(trace) :
    (/\ a < b
     /\ trace[a].pass = "delete" /\ trace[b].pass = "delete"
     /\ WellFormedId(generatedTasks[trace[a].idx])
     /\ Field(generatedTasks[trace[a].idx], "id") = Field(generatedTasks[trace[b].idx], "id")
     /\ trace[a].q.ok /\ trace[b].q.ok)
    => trace[b].q.rowCount = 0

C4_WellFormedDelete == [][C4_DeleteStep]_vars /\ []C4_SecondDeleteFindsNothing

\* the same delete twice in one batch: one deletion, then one "No task found"
C4_Witness ==
  /\ pc = "returned"
  /\ Len(trace) = 2
  /\ trace[1].q.kind = "DELETE" /\ trace[1].q.ok /\ trace[1].q.rowCount = 1
  /\ trace[2].q.kind = "DELETE" /\ trace[2].q.ok /\ trace[2].q.rowCount = 0
  /\ trace[1].q.id = trace[2].q.id
  /\ Len(results.deletedTasks) = 1
  /\ Len(results.conflicts) = 1
  /\ results.conflicts[1].issue.msg = "No task found with ID"

(***************************************************************************)
(* C5: a create-shaped operation whose title is missing, not a string or   *)
(* blank, or whose duration is missing, not a number or not positive,      *)
(* adds one conflict, adds nothing to insertedTasks and issues no storage  *)
(* query.                                                                  *)
(***************************************************************************)
BadTitle(task) ==
  LET t == Field(task, "title")
  IN  Absent(t) \/ t.k \notin {"str", "word"} \/ (t.k = "str" /\ AllSpaces(t.s))

BadDuration(task) ==
  LET d == Field(task, "duration")
  IN  Absent(d) \/ d.k # "num" \/ (d.k = "num" /\ ~(d.n > 0))

C5_Step ==
  (Processing("create") /\ (BadTitle(CurTask) \/ BadDuration(CurTask)))
  =>
  /\ Len(results'.conflicts) = Len(results.conflicts) + 1
  /\ results'.insertedTasks = results.insertedTasks
  /\ Last(trace').q.kind = "none"
  /\ tasks' = tasks
  /\ nextId' = nextId

C5_InvalidCreateRejected == [][C5_Step]_vars

\* a create with a valid title but a non-positive or non-numeric duration was rejected
C5_Witness ==
  \E t \in 1 .. Len(trace) :
    /\ trace[t].pass = "create"
    /\ ~BadTitle(generatedTasks[trace[t].idx])
    /\ BadDuration(generatedTasks[trace[t].idx])
    /\ Truthy(Field(generatedTasks[trace[t].idx], "duration"))
    /\ trace[t].q.kind = "none"
    /\ results.conflicts # <<>>
    /\ results.insertedTasks = <<>>

(***************************************************************************)
(* C6: a delete-shaped or modify-shaped operation that carries no identity *)
(* adds a conflict and issues no storage mutation, even when its title     *)
(* matches an existing task.                                               *)
(***************************************************************************)
C6_Step ==
  \A pass \in {"delete", "modify"} :
    (Processing(pass) /\ Absent(Field(CurTask, "id")))
    =>
    /\ Len(results'.conflicts) = Len(results.conflicts) + 1
    /\ results'.deletedTasks = results.deletedTasks
    /\ results'.modifiedTasks = results.modifiedTasks
    /\ Last(trace').q.kind = "none"
    /\ tasks' = tasks

C6_NoIdentityNoMutation == [][C6_Step]_vars

\* a delete and a modify without identity, both titled like a snapshot task
C6_Witness ==
  /\ pc = "returned"
  /\ \A pass \in {"delete", "modify"} :
       \E t \in 1 .. Len(trace) :
         /\ trace[t].pass = pass
         /\ Absent(Field(generatedTasks[trace[t].idx], "id"))
         /\ \E k \in 1 .. Len(existingTasks) :
              existingTasks[k].title = Field(generatedTasks[trace[t].idx], "title")
         /\ trace[t].q.kind = "none"
  /\ Len(results.conflicts) = 2


(***************************************************************************)
(* C7: fuzzy-duplicate rule of the create pass.  A create operation with   *)
(* a valid title and duration is rejected as "Similar task already exists" *)
(* (no insert, no query, one conflict) exactly when the first 20           *)
(* characters of its title occur, case-insensitively, in some snapshot     *)
(* title, or the first 20 characters of some snapshot title occur in the   *)
(* proposed title.                                                         *)
(***************************************************************************)
\* the first n characters of s
FirstChars(s, n) == [k \in 1 .. (IF Len(s) < n THEN Len(s) ELSE n) |-> s[k]]

\* needle occurs in hay, up to case
OccursCI(needle, hay) ==
  \E off \in 0 .. (Len(hay) - Len(needle)) :
    \A j \in 1 .. Len(needle) : SameCharCI(hay[off + j], needle[j])

FuzzyDuplicate(title, existingTitle) ==
  \/ OccursCI(FirstChars(title, 20), existingTitle)
  \/ OccursCI(FirstChars(existingTitle, 20), title)

\* the snapshot rows the proposed title is a fuzzy duplicate of
Duplicates(task, existing) ==
  { k \in 1 .. Len(existing) :
      FuzzyDuplicate(Field(task, "title").s, existing[k].title.s) }

\* the create step is one the rule decides: valid operation, string titles
RuleApplies ==
  /\ Processing("create")
  /\ ~BadTitle(CurTask) /\ ~BadDuration(CurTask)
  /\ Field(CurTask, "title").k = "str"
  /\ \A k \in 1 .. Len(existingTasks) : existingTasks[k].title.k = "str"

RejectedAsSimilar ==
  /\ Len(results'.conflicts) = Len(results.conflicts) + 1
  /\ Last(results'.conflicts).issue.msg = "Similar task already exists"
  /\ results'.insertedTasks = results.insertedTasks
  /\ Last(trace').q.kind = "none"
  /\ tasks' = tasks

C7_RuleStep ==
  RuleApplies =>
    /\ RejectedAsSimilar <=> Duplicates(CurTask, existingTasks) # {}
    /\ Duplicates(CurTask, existingTasks) = {} =>
         \A k \in 1 .. Len(results'.conflicts) :
           results'.conflicts[k].issue.msg = "Similar task already exists"
             => k <= Len(results.conflicts)

\* C7 as stated: the suggestion of the conflict references the existing title
C7_SuggestionStep ==
  (RuleApplies /\ Duplicates(CurTask, existingTasks) # {}) =>
    \E k \in Duplicates(CurTask, existingTasks) :
      Last(results'.conflicts).suggestion.arg = existingTasks[k].title

C7_Original == [][C7_RuleStep /\ C7_SuggestionStep]_vars

\* C7 amended: the issue references the existing title, the suggestion the
\* proposed title
C7_IssueStep ==
  (RuleApplies /\ Duplicates(CurTask, existingTasks) # {}) =>
    /\ \E k \in Duplicates(CurTask, existingTasks) :
         Last(results'.conflicts).issue.arg = existingTasks[k].title
    /\ Last(results'.conflicts).suggestion.arg = Field(CurTask, "title")

C7_FuzzyDuplicateRule == [][C7_RuleStep /\ C7_IssueStep]_vars

\* a title longer than 20 characters that differs from the snapshot title only
\* after its first 20 characters was rejected
C7_Witness ==
  \E c \in 1 .. Len(results.conflicts) :
    /\ results.conflicts[c].issue.msg = "Similar task already exists"
    /\ results.conflicts[c].issue.arg = Str(TReport)
    /\ results.conflicts[c].suggestion.arg = Str(TReportOther)
    /\ results.insertedTasks = <<>>

(***************************************************************************)
(* C8: a modify with a well-formed identity that supplies only a status,   *)
(* once storage has answered, sets the status of the caller's task with    *)
(* that identity to the supplied value and leaves its title, duration and  *)
(* importance unchanged.                                                   *)
(***************************************************************************)
OnlyStatus(task) ==
  /\ ~Absent(Field(task, "status")) /\ Truthy(Field(task, "status"))
  /\ \A f \in {"title", "duration", "importance", "scheduledTime"} : Absent(Field(task, f))

C8_Step ==
  (/\ Processing("modify")
   /\ WellFormedId(CurTask)
   /\ OnlyStatus(CurTask)
   /\ Last(trace').q.ok)
  =>
  \A r \in tasks :
    (r.id = Field(CurTask, "id").s /\ r.user_id = userId) =>
      \E n \in tasks' :
        /\ n.id = r.id /\ n.user_id = r.user_id
        /\ n.status = Field(CurTask, "status")
        /\ n.title = r.title
        /\ n.duration_minutes = r.duration_minutes
        /\ n.importance = r.importance

C8_StatusOnlyModify == [][C8_Step]_vars

\* the status-only modify was applied to the stored "Workout" task
C8_Witness ==
  /\ \E t \in 1 .. Len(trace) :
       /\ trace[t].pass = "modify"
       /\ OnlyStatus(generatedTasks[trace[t].idx])
       /\ trace[t].q.kind = "UPDATE" /\ trace[t].q.ok /\ trace[t].q.rowCount = 1
       /\ trace[t].q.id = IdWorkout
  /\ \E r \in tasks :
       /\ r.id = IdWorkout /\ r.status = Word("done") /\ r.title = Str(TWorkout)
       /\ r.duration_minutes = Num(45) /\ r.importance = Word("high")

(***************************************************************************)
(* C9: field-level merge of the modify pass: for every modify that reaches *)
(* storage, each of title, duration, importance, status and scheduledTime  *)
(* that the operation leaves unset keeps the stored task's value.          *)
(***************************************************************************)
RowField(f) ==
  CASE f = "title" -> "title"
    [] f = "duration" -> "duration_minutes"
    [] f = "importance" -> "importance"
    [] f = "status" -> "status"
    [] f = "scheduledTime" -> "scheduled_time"

C9_Step ==
  (/\ Processing("modify")
   /\ Last(trace').q.kind = "UPDATE"
   /\ Last(trace').q.ok)
  =>
  \A r \in tasks :
    (r.id = Last(trace').q.id /\ r.user_id = userId) =>
      \E n \in tasks' :
        /\ n.id = r.id
        /\ \A f \in {"title", "duration", "importance", "status", "scheduledTime"} :
             Absent(Field(CurTask, f)) => n[RowField(f)] = r[RowField(f)]

C9_FieldLevelMerge == [][C9_Step]_vars

(***************************************************************************)
(* C10: a create-shaped operation with a non-blank title and a positive    *)
(* duration that is no fuzzy duplicate of a snapshot task, once storage    *)
(* has answered its INSERT, inserts exactly one task owned by the calling  *)
(* user with status 'todo' and the trimmed title, adds exactly one         *)
(* insertedTasks entry carrying the identity storage assigned, and adds no *)
(* conflict.  With an empty snapshot and a batch of one such operation the *)
(* result has one inserted task and no conflict.                           *)
(***************************************************************************)
\* t is s without its leading and trailing spaces
IsTrimOf(t, s) ==
  /\ t # <<>> => t[1] # " " /\ t[Len(t)] # " "
  /\ \E a \in 0 .. Len(s) :
       /\ a + Len(t) <= Len(s)
       /\ \A k \in 1 .. Len(s) :
            IF k > a /\ k <= a + Len(t) THEN s[k] = t[k - a] ELSE s[k] = " "

GoodCreate(task, existing) ==
  /\ ~BadTitle(task) /\ ~BadDuration(task)
  /\ Field(task, "title").k = "str"
  /\ \A k \in 1 .. Len(existing) : existing[k].title.k = "str"
  /\ Duplicates(task, existing) = {}

C10_Step ==
  (/\ Processing("create")
   /\ GoodCreate(CurTask, existingTasks)
   /\ ~(Last(trace').q.kind = "INSERT" /\ ~Last(trace').q.ok))
  =>
  /\ results'.conflicts = results.conflicts
  /\ Len(results'.insertedTasks) = Len(results.insertedTasks) + 1
  /\ Cardinality(tasks' \ tasks) = 1
  /\ tasks \subseteq tasks'
  /\ \A n \in tasks' \ tasks :
       /\ n.user_id = userId
       /\ n.status = Word("todo")
       /\ n.title.k = "str"
       /\ IsTrimOf(n.title.s, Field(CurTask, "title").s)
       /\ n.id = Last(results'.insertedTasks).id
       /\ \A r \in tasks : r.id # n.id
       /\ Last(trace').q.kind = "INSERT" /\ Last(trace').q.id = n.id

C10_ScenarioA ==
  (/\ pc = "returned"
   /\ existingTasks = <<>>
   /\ Len(generatedTasks) = 1
   /\ Recognised(generatedTasks[1]) /\ IsAdd(generatedTasks[1])
   /\ GoodCreate(generatedTasks[1], existingTasks)
   /\ \A t \in 1 .. Len(trace) : trace[t].q.kind # "none" => trace[t].q.ok)
  =>
  /\ Len(results.insertedTasks) = 1
  /\ results.conflicts = <<>>

C10_ValidCreateInserted == [][C10_Step]_vars /\ []C10_ScenarioA

\* scenario A: empty snapshot, one padded "Call mom" create
C10_Witness ==
  /\ pc = "returned"
  /\ existingTasks = <<>>
  /\ generatedTasks = <<OpCallMom>>
  /\ Len(results.insertedTasks) = 1
  /\ results.insertedTasks[1].title = Str(TCallMom)
  /\ results.conflicts = <<>>
  /\ \E r \in tasks :
       /\ r.id = results.insertedTasks[1].id
       /\ r.user_id = userId /\ r.title = Str(TCallMom) /\ r.status = Word("todo")

(***************************************************************************)
(* C11: a delete whose identity fails the format check always adds the     *)
(* "Invalid UUID format for deletion" conflict naming the proposed         *)
(* identity, whether or not a snapshot task matches its title and whether  *)
(* or not the rescue DELETE is answered; when a snapshot task with a       *)
(* well-formed identity matches the title and storage answers the DELETE,  *)
(* the step also adds one deletedTasks entry carrying that task's          *)
(* identity.                                                               *)
(***************************************************************************)
AddedConflicts ==
  SubSeq(results'.conflicts, Len(results.conflicts) + 1, Len(results'.conflicts))

AddedDeleted ==
  SubSeq(results'.deletedTasks, Len(results.deletedTasks) + 1, Len(results'.deletedTasks))

InvalidFormatConflict(c, task) ==
  c.issue.msg = "Invalid UUID format for deletion" /\ c.issue.arg = Field(task, "id")

C11_Step ==
  (Processing("delete") /\ MalformedId(CurTask)) =>
    /\ \E k \in 1 .. Len(AddedConflicts) : InvalidFormatConflict(AddedConflicts[k], CurTask)
    /\ (TitleMatches(CurTask, existingTasks) # {} /\ Last(trace').q.ok) =>
         /\ Len(AddedDeleted) = 1
         /\ AddedDeleted[1].id \in
              { existingTasks[k].id : k \in TitleMatches(CurTask, existingTasks) }
    /\ \A k \in 1 .. Len(results.conflicts) : results'.conflicts[k] = results.conflicts[k]
    /\ \A k \in 1 .. Len(results.deletedTasks) :
         results'.deletedTasks[k] = results.deletedTasks[k]

C11_RescuedDeleteKeepsConflict == [][C11_Step]_vars

\* a returned batch of two rescued deletes: the first DELETE failed, the second was
\* answered; both left the invalid-format conflict and one left a deletedTasks entry
C11_Witness ==
  /\ pc = "returned"
  /\ Len(trace) = 2
  /\ \A t \in 1 .. 2 :
       /\ trace[t].pass = "delete"
       /\ MalformedId(generatedTasks[trace[t].idx])
       /\ trace[t].q.kind = "DELETE"
  /\ ~trace[1].q.ok /\ trace[2].q.ok
  /\ Len(results.conflicts) = 2
  /\ \A k \in 1 .. 2 :
       InvalidFormatConflict(results.conflicts[k], generatedTasks[trace[k].idx])
  /\ Len(results.deletedTasks) = 1
  /\ results.deletedTasks[1].id = IdWorkout

(***************************************************************************)
(* C13: every proposed operation is accounted for: when the call returns   *)
(* and no filter threw, each element of the batch that was not applied to  *)
(* storage has been processed by one of the three passes (only a processed *)
(* element pushes anything) and the conflicts list holds at least one      *)
(* entry per such element; this includes elements that carry an identity   *)
(* but no action and elements whose action is none of the recognised       *)
(* values.                                                                 *)
(***************************************************************************)
\* the k-th element was handed to one of the three passes
Processed(k) == \E t \in 1 .. Len(trace) : trace[t].idx = k

\* the k-th element changed storage
Applied(k) ==
  \E t \in 1 .. Len(trace) :
    /\ trace[t].idx = k
    /\ trace[t].q.kind # "none"
    /\ trace[t].q.ok
    /\ trace[t].q.rowCount > 0

Unapplied == { k \in 1 .. Len(generatedTasks) : ~Applied(k) }

C13_EveryOperationAccounted ==
  (pc = "returned" /\ ~FilterThrows(generatedTasks)) =>
    /\ \A k \in Unapplied : Processed(k)
    /\ Len(results.conflicts) >= Cardinality(Unapplied)

(***************************************************************************)
(* Vocabulary of the Model Router properties                               *)
(***************************************************************************)
\* the priority list of the call's task type (the task-generation list for a type
\* that has none)
PriorityList ==
  IF taskType \in TaskTypes THEN TASK_MODEL_PRIORITIES(taskType)
  ELSE TASK_MODEL_PRIORITIES("task-generation")

\* the requests issued so far went to the first backends of the list, in order
InListOrder ==
  /\ Len(requested) <= Len(PriorityList)
  /\ \A k \in 1 .. Len(requested) : requested[k].model = PriorityList[k]

\* every request but the last has failed
EarlierFailed == \A k \in 1 .. Len(requested) - 1 : requested[k].outcome = "failed"

(***************************************************************************)
(* C14: when callOptimalAI returns, attemptCount is the 1-based position   *)
(* in the task type's priority list of the first backend that succeeded    *)
(* (every backend before it was requested and failed) and modelUsed names  *)
(* that backend.                                                           *)
(***************************************************************************)
C14_AttemptCountIsPosition ==
  rpc = "returned" =>
    LET n == routerResult.attemptCount
    IN  /\ n \in 1 .. Len(PriorityList)
        /\ Len(requested) = n
        /\ InListOrder
        /\ EarlierFailed
        /\ requested[n].outcome = "ok"
        /\ routerResult.modelUsed.endpoint = AI_MODELS[PriorityList[n]].endpoint
        /\ routerResult.modelUsed.name = AI_MODELS[PriorityList[n]].name

\* the first two backends failed, the second with HTTP 429, and the third succeeded
C14_Witness ==
  /\ rpc = "returned"
  /\ taskType = "task-generation"
  /\ Len(requested) = 3
  /\ requested[1].outcome = "failed" /\ requested[2].outcome = "failed"
  /\ lastError = [k |-> "error", message |-> "HTTP 429: rate limit exceeded"]
  /\ routerResult.attemptCount = 3
  /\ routerResult.modelUsed.endpoint = "mistral-large-2411"

(***************************************************************************)
(* C15: callOptimalAI throws only after every backend of the task type's   *)
(* priority list has been requested and has failed, whatever the kind of   *)
(* each failure, and the error it throws carries the message of the last   *)
(* backend's error.                                                        *)
(***************************************************************************)
C15_FailsOnlyWhenExhausted ==
  rpc = "threw" =>
    /\ Len(requested) = Len(PriorityList)
    /\ InListOrder
    /\ \A k \in 1 .. Len(requested) : requested[k].outcome = "failed"
    /\ routerResult.k = "error"
    /\ routerResult.attempts = Len(PriorityList)
    /\ lastError.k = "error"
    /\ lastError.message \in Failures
    /\ routerResult.lastError = lastError.message

\* the five json-parsing backends failed, the last one on the network
C15_Witness ==
  /\ rpc = "threw"
  /\ taskType = "json-parsing"
  /\ Len(requested) = 5
  /\ routerResult.lastError = "fetch failed"

(***************************************************************************)
(* C16: within one call the backends are requested one at a time in the    *)
(* order of the priority list, each at most once; a request is issued only *)
(* after the previous one failed and none after a success; the first       *)
(* request of every call goes to the head of the list, whatever the        *)
(* performance counters hold.                                              *)
(***************************************************************************)
C16_SequentialInPriorityOrder ==
  /\ InListOrder
  /\ EarlierFailed
  /\ \A j, k \in 1 .. Len(requested) : j # k => requested[j].model # requested[k].model
  /\ Cardinality({ k \in 1 .. Len(requested) : requested[k].outcome = "pending" }) <= 1
  /\ (rpc = "await") <=>
       (requested # <<>> /\ requested[Len(requested)].outcome = "pending")
  /\ rpc \in {"returned", "threw", "idle"} =>
       \A k \in 1 .. Len(requested) : requested[k].outcome # "pending"
  /\ rpc = "request" => \A k \in 1 .. Len(requested) : requested[k].outcome = "failed"

\* a later call requests the head of its list although that model has only failures
\* on record
C16_Witness ==
  /\ callsMade = 2
  /\ rpc = "await"
  /\ Len(requested) = 1
  /\ requested[1].model = PriorityList[1]
  /\ modelPerformance[requested[1].model].failures > 0
  /\ modelPerformance[requested[1].model].successes = 0
  /\ \E k \in ModelKeys : modelPerformance[k].successes > 0


(***************************************************************************)
(* C17: cleanAIResponse never returns the empty string, whatever it is     *)
(* given: null, a non-string, an empty or whitespace-only text, a text of  *)
(* debug tags only, a text that is too short, or one that is too long and  *)
(* gets truncated.  The code returns '' for a text longer than MaxLength   *)
(* whose first sentence is longer than TruncateAt.                         *)
(***************************************************************************)
C17_NeverEmpty == cleaned.k = "str" => Len(cleaned.s) >= 1


(***************************************************************************)
(* C18: primary extraction returns the first balanced top-level JSON array *)
(* (or object) of the AI text: a text that wraps one valid array in prose  *)
(* yields exactly that array, also when the prose after it holds brackets. *)
(* The code matches from the first opening bracket to the LAST closing     *)
(* bracket, so brackets in the trailing prose make the extraction fail.    *)
(***************************************************************************)
\* p lies inside a string literal of the text that begins at `from`
InString(text, from, p) ==
  Cardinality({ q \in from .. p - 1 : text[q] = "\"" }) % 2 = 1

\* the nesting depth after position p, counted from `from`, of the kind's brackets
Depth(kind, text, from, p) ==
  Cardinality({ q \in from .. p : text[q] = OpenOf(kind) /\ ~InString(text, from, q) })
    - Cardinality({ q \in from .. p : text[q] = CloseOf(kind) /\ ~InString(text, from, q) })

\* the first balanced top-level array or object of the text, <<>> if there is none
FirstBalanced(kind, text) ==
  LET opens == { p \in 1 .. Len(text) : text[p] = OpenOf(kind) }
      first == MinOf(opens)
      ends == { p \in first .. Len(text) : Depth(kind, text, first, p) = 0 }
  IN  IF opens = {} \/ ends = {} THEN <<>>
      ELSE SubSeq(text, first, MinOf(ends))

C18_FirstBalancedExtracted ==
  (parsed.k # "none" /\ JSONparses(FirstBalanced(shape, aiResponse)))
     => parsed = Parsed(FirstBalanced(shape, aiResponse))


(***************************************************************************)
(* Vocabulary of the handler properties                                    *)
(***************************************************************************)
\* the positions of the journal that hold an event of the kind
Events(kind) == { k \in DOMAIN journal : journal[k].e = kind }

\* the callOptimalAI calls of the request made with the task type
CallsOf(type) == { k \in Events("ai") : journal[k].type = type }

\* the handler's promise has settled
Finished == stage \in {"resolved", "rejected"}

JsonHandlers ==
  {"extractTasksFromVoice", "generateAITasks", "alignTasksWithAIPlan", "generatePlan"}

\* the primary extraction of the request failed
PrimaryFailed == Events("extract") # {} /\ ~journal[MinOf(Events("extract"))].ok

\* the primary extraction failed and no extraction of a repaired text succeeded
RepairFailed == PrimaryFailed /\ \A k \in Events("extract") : ~journal[k].ok

\* the request has stored a plan, or handed tasks to the alignment or the insert loop
Persisted == Events("apply") # {} \/ \E k \in Events("query") : journal[k].q = "upsertPlan"

(***************************************************************************)
(* C19 as stated: in each of the four JSON-parsing handlers a failed       *)
(* primary extraction is followed by exactly one 'json-parsing' repair     *)
(* call; when the repair fails too, plan generation aborts and stores no   *)
(* plan, and task generation goes on with an empty list.  Refuted:         *)
(* alignTasksWithAIPlan requests no repair, and generateAITasks aborts.    *)
(***************************************************************************)
C19_RepairInEveryHandler ==
  (Finished /\ req.handler \in JsonHandlers /\ PrimaryFailed)
    => /\ Cardinality(CallsOf("json-parsing")) = 1
       /\ (RepairFailed /\ req.handler = "generatePlan")
            => (response = Sent(500) /\ ~Persisted)
       /\ (RepairFailed /\ req.handler = "generateAITasks")
            => \E k \in Events("apply") : journal[k].batch = EmptyList

(***************************************************************************)
(* C19, amended: voice extraction, task generation and plan generation     *)
(* follow a failed primary extraction by exactly one 'json-parsing' repair *)
(* call, issued right after the failure, and extract again at most once;   *)
(* when the repair fails too they abort with status 500, having stored no  *)
(* plan and applied no task.  The explicit align-now handler requests no   *)
(* repair: after a failed extraction it goes on with the empty list.       *)
(***************************************************************************)
C19_RepairOrDegrade ==
  (Finished /\ req.handler \in JsonHandlers)
    => LET extracts == Events("extract")
           repairs == CallsOf("json-parsing")
       IN  IF req.handler = "alignTasksWithAIPlan"
             THEN /\ repairs = {}
                  /\ Cardinality(extracts) <= 1
                  /\ PrimaryFailed =>
                       /\ Events("apply") # {}
                       /\ \A k \in Events("apply") : journal[k].batch = EmptyList
             ELSE /\ Cardinality(extracts) <= 2
                  /\ Cardinality(repairs) = IF PrimaryFailed THEN 1 ELSE 0
                  /\ \A k \in repairs : k = MinOf(extracts) + 1
                  /\ \A k \in extracts : k # MinOf(extracts) => \E c \in repairs : c < k
                  /\ RepairFailed => (response = Sent(500) /\ ~Persisted)

\* task generation has aborted after a failed repair
C19_Witness ==
  /\ Finished
  /\ req.handler = "generateAITasks"
  /\ RepairFailed
  /\ Cardinality(Events("extract")) = 2
  /\ response = Sent(500)

(***************************************************************************)
(* C20: a handler that acquires a connection ends it exactly once before   *)
(* it finishes, on every exit path, and issues no query on it afterwards;  *)
(* a failure of end() leaves the response that was chosen.                 *)
(***************************************************************************)
Opened == { k \in Events("connect") : journal[k].ok }

C20_Discipline ==
  /\ Cardinality(Events("end")) <= Cardinality(Opened)
  /\ Cardinality(Opened) <= 1
  /\ (sql = "open") = (Opened # {} /\ Events("end") = {})
  /\ Finished => Cardinality(Events("end")) = Cardinality(Opened)
  /\ \A k \in Events("end") : \A j \in DOMAIN journal :
       j > k => journal[j].e \notin {"connect", "query", "apply"}
  /\ stage = "finally" => response # NoResponse

\* the finally block, and so a failing end(), leaves the response alone
C20_Closing == stage = "finally" => response' = response

C20_ScopedConnection == []C20_Discipline /\ [][C20_Closing]_vars

\* generatePlan has returned early for missing data and end() has failed
C20_Witness ==
  /\ Finished
  /\ req.handler = "generatePlan"
  /\ response = Sent(400)
  /\ \E k \in Events("end") : ~journal[k].ok

(***************************************************************************)
(* C12  User isolation                                                     *)
(***************************************************************************)
\* the tasks a user owns
Owned(u) == { r \in tasks : r.user_id = u }

\* the step belongs to a batch run for u or to a request made by u
ActsFor(u) ==
  \/ batchVars' # batchVars /\ userId = u
  \/ handlerVars' # handlerVars /\ req.user = u

C12_Step == \A u \in Users : Owned(u)' # Owned(u) => ActsFor(u)

\* C12: no step of an alignTasksWithPlan batch run for a user, and no step of an
\* updateTask, deleteTask or clearTasks request made by a user, adds, removes or
\* changes a task owned by another user, whatever identities and titles the
\* operations name; so after any sequence of such calls on behalf of A every task
\* of B is still present with all fields unchanged.
C12_UserIsolation == [][C12_Step]_vars

\* alice's deleteTask on bob's task was answered 404, her batch proposing to remove
\* that task has returned, and bob still owns the task as it was
C12_Witness ==
  /\ req.handler = "deleteTask" /\ req.user = "alice" /\ req.id = Str(IdRent)
  /\ stage = "resolved" /\ response = Sent(404)
  /\ pc = "returned" /\ userId = "alice"
  /\ \E k \in DOMAIN generatedTasks : generatedTasks[k] = OpRemoveRent
  /\ Owned("bob") = { r \in SeedRows : r.user_id = "bob" }

(***************************************************************************)
(* C21  scheduledTime of a stored task                                     *)
(***************************************************************************)
\* absent, or a 24-hour HH:MM text as the task routes accept it
ValidTime(v) == v = Null \/ (v.k = "str" /\ IsHHMM(v.s))

\* C21: after any sequence of createTask, updateTask, generateAITasks and alignment
\* create and modify operations, the scheduled time of every stored task is absent
\* or an HH:MM text with hours 0-23 and minutes 0-59.
C21_ScheduledTimeValid == \A r \in tasks : ValidTime(r.scheduled_time)

(***************************************************************************)
(* C22  Durations that come from AI output                                 *)
(***************************************************************************)
MinDuration == 5

MaxDuration == 480

Clamped(v) == v.k = "num" /\ v.n >= MinDuration /\ v.n <= MaxDuration

\* a row the step wrote whose duration is not the one stored before
DurationWritten(r) == \A x \in tasks : x.id = r.id => x.duration_minutes # r.duration_minutes

\* C22: every duration that an alignment create or modify operation, or the insert
\* loop of generateAITasks, writes to storage lies within 5 and 480 minutes.
C22_Step ==
  batchVars' # batchVars =>
    \A r \in tasks' \ tasks : DurationWritten(r) => Clamped(r.duration_minutes)

C22_AIDurationClamped == [][C22_Step]_vars

(***************************************************************************)
(* C23  Title of a stored task                                             *)
(***************************************************************************)
\* C23: after any sequence of createTask, updateTask, generateAITasks and alignment
\* create and modify operations, the title of every stored task is a text with at
\* least one character that is not white space.
C23_TitleNotBlank == \A r \in tasks : r.title.k = "str" /\ trim(r.title.s) # <<>>

(***************************************************************************)
(* C24  One plan per user and day                                          *)
(***************************************************************************)
OnePlanPerDay ==
  \A p, q \in plans : p.user_id = q.user_id /\ p.plan_date = q.plan_date => p = q

\* worker w leaves the upsert statement of generatePlan in this step
Upserts(w) ==
  /\ workers[w].handler = "generatePlan"
  /\ workers[w].pc = "write"
  /\ workers'[w].pc # "write"

\* the caller's plan of the day now holds the generated plan, all other plans are as before
Replaced(w) ==
  LET me == workers[w]
  IN  /\ PlansOf(plans', me.user, today) = { PlanRow(me.user, today, me.arg) }
      /\ \A p \in plans \cup plans' :
           p.user_id # me.user \/ p.plan_date # today => (p \in plans <=> p \in plans')

C24_SuccessStep == \A w \in Workers : Upserts(w) /\ workers'[w].status = 200 => Replaced(w)

\* C24 as stated: at most one plan per user and day, and every generatePlan that
\* responds with success has replaced the caller's plan of the day by the generated
\* plan, leaving other plans unchanged.  Refuted: a rejected upsert is logged and the
\* request still responds with success.
C24_SuccessReplaces == []OnePlanPerDay /\ [][C24_SuccessStep]_vars

C24_Step ==
  /\ \A w \in Workers :
       Upserts(w) =>
         /\ workers'[w].status = 200
         /\ IF workers'[w].saved THEN Replaced(w) ELSE plans' = plans
  /\ plans' # plans => \E w \in Workers : Upserts(w) /\ workers'[w].saved

\* C24 amended: at most one plan exists per user and day under any interleaving of
\* generatePlan requests; a generatePlan whose upsert statement is answered replaces
\* the caller's plan of the current day by the generated plan (or inserts it), and
\* nothing else changes the plans table; when the upsert is rejected the plans are
\* unchanged and the request still responds with success.
C24_UpsertPerDay == []OnePlanPerDay /\ [][C24_Step]_vars

\* two requests of one user have both stored their plan on the same day, with
\* different contents, and one plan is left for that day
C24_Witness ==
  \E v, w \in Workers :
    /\ v # w
    /\ workers[v].handler = "generatePlan" /\ workers[w].handler = "generatePlan"
    /\ workers[v].user = workers[w].user
    /\ workers[v].saved /\ workers[w].saved
    /\ workers[v].arg # workers[w].arg
    /\ workers[v].pc = "done" /\ workers[w].pc = "done"
    /\ today = 1
    /\ Cardinality(PlansOf(plans, workers[w].user, today)) = 1

(***************************************************************************)
(* C25  404 and success of updateTask and deleteTask                       *)
(***************************************************************************)
\* the request runs statement q in this step
Runs(q) == stage = "run" /\ Cur.op = "query" /\ Cur.q = q /\ journal' # journal

\* the caller's rows with the addressed identity
Addressed == Hit(tasks, req.id.s, req.user)

\* C25: updateTask and deleteTask respond 404, changing no task, exactly when no task
\* of the caller has the addressed identity; the UPDATE or DELETE of a request that
\* goes on to respond with success updates or deletes a row the caller owns, also
\* when another call deletes the task between the ownership check and the UPDATE.
C25_Step ==
  /\ response # Sent(404) /\ response' = Sent(404) => Addressed = {} /\ tasks' = tasks
  /\ (Runs("selectOwned") \/ Runs("deleteOwned")) /\ response' # Sent(500) =>
       (Addressed = {} <=> response' = Sent(404))
  /\ Runs("updateById") /\ step' = step + 1 => Addressed # {} /\ tasks' # tasks
  /\ Runs("deleteOwned") /\ step' = step + 1 => Addressed # {} /\ tasks' = tasks \ Addressed

C25_NotFoundOrDone == [][C25_Step]_vars

(***************************************************************************)
(* C26  Entries of deletedTasks and modifiedTasks are effects on storage   *)
(***************************************************************************)
AddedModified ==
  SubSeq(results'.modifiedTasks, Len(results.modifiedTasks) + 1, Len(results'.modifiedTasks))

\* the step removed the row an added deletedTasks entry names, and an added
\* modifiedTasks entry names a row of the caller that the UPDATE matched
C26_Step ==
  (\E pass \in Passes : Processing(pass)) =>
    /\ \A k \in DOMAIN AddedDeleted : \E r \in tasks \ tasks' : r.id = AddedDeleted[k].id
    /\ \A k \in DOMAIN AddedModified :
         \E r \in tasks : r.id = AddedModified[k].id /\ r.user_id = userId

C26_NoIdentityTwice ==
  \A a, b \in DOMAIN results.deletedTasks :
    a # b => results.deletedTasks[a].id # results.deletedTasks[b].id

\* C26: every entry of deletedTasks names a row this batch removed and every entry
\* of modifiedTasks a row it updated; no entry is recorded for a DELETE or UPDATE
\* that affected no row, and no identity occurs twice in deletedTasks, on the direct
\* path and the title-rescue path alike.
C26_EntriesAreEffects == []C26_NoIdentityTwice /\ [][C26_Step]_vars

(***************************************************************************)
(* C27  Order of the passes                                                *)
(***************************************************************************)
PassOrder == <<"create", "delete", "modify">>

Rank(pass) == CHOOSE k \in DOMAIN PassOrder : PassOrder[k] = pass

\* C27: whatever the order of the elements in the batch, the operations are processed
\* (and their storage statements issued) in the order create pass, delete pass,
\* modify pass, and within a pass in the order of the batch.
C27_PassOrder ==
  \A a, b \in DOMAIN trace :
    a < b =>
      \/ Rank(trace[a].pass) < Rank(trace[b].pass)
      \/ trace[a].pass = trace[b].pass /\ trace[a].idx < trace[b].idx

\* a batch that lists a modify operation before a create operation has returned: the
\* INSERT of the second element was issued before the UPDATE of the first
C27_Witness ==
  /\ pc = "returned"
  /\ Len(generatedTasks) = 2 /\ Len(trace) = 2
  /\ IsModify(generatedTasks[1]) /\ IsAdd(generatedTasks[2])
  /\ trace[1].idx = 2 /\ trace[1].q.kind = "INSERT"
  /\ trace[2].idx = 1 /\ trace[2].q.kind = "UPDATE"

(***************************************************************************)
(* C28  The snapshot is read-only and is the only thing looked up          *)
(***************************************************************************)
\* alignTasksWithPlan is running: from the call to its return
Aligning == pc \in {"create", "delete", "modify"}

\* a create operation the duplicate rule lets through is sent to storage whatever
\* earlier operations of the batch have inserted
C28_CreateStep ==
  (RuleApplies /\ Duplicates(CurTask, existingTasks) = {}) =>
    /\ Last(trace').q.kind = "INSERT"
    /\ Last(trace').q.ok =>
         /\ Cardinality(tasks') = Cardinality(tasks) + 1
         /\ Len(results'.insertedTasks) = Len(results.insertedTasks) + 1

\* a delete or modify operation without a well-formed identity that reaches storage
\* addresses a row of the snapshot whose title equals the proposed title
C28_RescueStep ==
  ((Processing("delete") \/ Processing("modify"))
     /\ ~isValidUUID(Field(CurTask, "id")) /\ Last(trace').q.kind # "none") =>
    \E k \in 1 .. Len(existingTasks) :
      /\ existingTasks[k].id = Last(trace').q.id
      /\ RescueMatches(existingTasks[k], CurTask)

\* C28: alignTasksWithPlan never changes the snapshot of existing tasks, and the
\* duplicate check and the title-rescue lookup consult only that snapshot, never the
\* results of earlier operations of the batch: two create operations with the same
\* title, against a snapshot with no similar task, are both inserted.
C28_SnapshotOnly ==
  [][(Aligning => existingTasks' = existingTasks) /\ C28_CreateStep /\ C28_RescueStep]_vars

\* a batch of two create operations with the same title has returned with both
\* inserted, the snapshot holding no similar task
C28_Witness ==
  /\ pc = "returned"
  /\ generatedTasks = <<OpCallMom, OpCallMom>>
  /\ Duplicates(OpCallMom, existingTasks) = {}
  /\ Len(results.insertedTasks) = 2
  /\ results.insertedTasks[1].title = results.insertedTasks[2].title
  /\ Cardinality({ r \in tasks : r.title = Str(TCallMom) /\ r.user_id = userId }) = 2

(***************************************************************************)
(* C29  Concurrent saveGameHighScore requests                              *)
(***************************************************************************)
AtMostOneScoreRow == \A u \in Users : Cardinality(ScoresOf(scores, u)) <= 1

\* no step lowers a score that is stored for a user
ScoreNeverDecreases ==
  \A r \in scores : \A s \in scores' : s.row = r.row => s.score >= r.score

\* C29: a user's stored game high score never decreases and there is at most one
\* score row per user, after any interleaving of concurrent saveGameHighScore
\* requests, each of which reads the existing score and then, as a separate step,
\* inserts or updates.
C29_HighScoreMonotonic == []AtMostOneScoreRow /\ [][ScoreNeverDecreases]_vars

(***************************************************************************)
(* C30  parseTimeString and the scheduledTime of voice extraction          *)
(***************************************************************************)
\* HH:MM with hours 00-23 and minutes 00-59
IsTwoDigitHHMM(text) ==
  /\ Len(text) = 5 /\ text[3] = ":"
  /\ \A p \in {1, 2, 4, 5} : IsDigit(text[p])
  /\ parseInt(SubSeq(text, 1, 2)) <= 23
  /\ parseInt(SubSeq(text, 4, 5)) <= 59

\* C30: parseTimeString returns null or a text HH:MM with hours 00-23 and minutes
\* 00-59 for every input of the shapes it accepts, and so every scheduledTime that
\* voice extraction returns is null or a valid 24-hour time.
C30_ParsedTimesValid ==
  \A k \in DOMAIN validTasks :
    /\ \/ validTasks[k].parsedTime \in {Undef, Null}
       \/ validTasks[k].parsedTime.k = "str" /\ IsTwoDigitHHMM(validTasks[k].parsedTime.s)
    /\ ValidTime(validTasks[k].scheduledTime)

=============================================================================
